---- MODULE Spec2Model ----
(***************************************************************************)
(* A model of panimg's DICOM and OCT image builders.                       *)
(*                                                                         *)
(*   - the batch level: image_builder_dicom and image_builder_oct driven   *)
(*     by _build_files (panimg/panimg.py), with the study grouper          *)
(*     (_get_headers_by_study) and the 4D validator                        *)
(*     (_find_valid_dicom_files) of panimg/image_builders/dicom.py.        *)
(*   - one call of DicomDataset.read: _determine_slice_order, the          *)
(*     assembly of the pixel buffer in _create_itk_from_dcm (rescaling,    *)
(*     MONOCHROME1 inversion) and the metadata written to the image.       *)
(*                                                                         *)
(* An image plane (Rows x Columns) is one sample: a buffer is a sequence   *)
(* of planes in row-major order of its leading axes.  float32 values are   *)
(* integer valued and rounded to 24 significant bits.                      *)
(*                                                                         *)
(* Absent DICOM tags are written 0 (tag values are drawn from 1..).        *)
(* Python's None for DicomDataset.n_time is written 0 as well: the code    *)
(* only ever tests "self.n_time and self.n_time > 1".                      *)
(***************************************************************************)
EXTENDS Integers, Sequences, FiniteSets, TLC

\* Bounds of the model.
MaxFiles == 2
MaxTime == 2
MaxFrames == 2
MaxVolumes == 2
MaxSlices == 3
MaxPixelFiles == 2

MaxChunks == 3
MaxSliceId == 4
MaxFdsChunks == 2
MaxCut == 3

VARIABLES
    builder,         \* "dicom" | "oct": the builder handed to _build_files
    input,           \* file id -> what the file holds (the files argument)
    pc,              \* position inside the builder / _build_files
    pending,         \* files the current "for file in files" loop has not visited
    studies,         \* _get_headers_by_study: key -> list of files (headers)
    keys,            \* insertion order of the keys of studies (dict order)
    names,           \* key -> <<StudyInstanceUID, index>> (studies[key]["name"])
    idx,             \* loop counter of the loops over studies / result
    result,          \* _find_valid_dicom_files: list of DicomDataset
    file_errors,     \* the builder's file_errors map: file -> list of messages
    yielded,         \* the records the builder has yielded so far
    consumed_files,  \* _build_files: consumed_files
    build_errors     \* _build_files: file_errors of the returned PanImgResult

\* One call of DicomDataset.read.
VARIABLES
    ds,                 \* self: the DicomDataset being read
    rpc,                \* position inside read ("idle": no read in progress)
    rindex,             \* 1 + index of "for index, partial in enumerate(headers)"
    geom,               \* what _determine_slice_order computed
    dcm_array,          \* _create_itk_from_dcm: dcm_array
    pixel_value_dtype,  \* self._pixel_value_dtype
    inverter,           \* self._pixel_value_inverter
    meta,               \* the metadata set on the image
    exc                 \* the exception read raised ("none": none)

\* One call of E2E.read_oct_volume and one call of E2E.read_custom_float.
VARIABLES
    e2e,                \* the E2E reader object and the loops of read_oct_volume
    cf                  \* read_custom_float: its argument and what it returned

batchVars == <<builder, pc, pending, studies, keys, names, idx, result,
               file_errors, yielded, consumed_files, build_errors>>

readVars == <<ds, rpc, rindex, geom, dcm_array, pixel_value_dtype, inverter,
              meta, exc>>

\* One call of FDS.get_list_of_file_chunks, one call of convert, and the
\* locals of image_builder_mhd.
VARIABLES
    fds,                \* the open file and the loop of get_list_of_file_chunks
    conv,               \* convert / _convert_directory: the chain of builders
    mhd                 \* image_builder_mhd: its local simple_itk_image

decodeVars == <<e2e, cf, fds, conv, mhd>>

vars == <<builder, input, pc, pending, studies, keys, names, idx, result,
          file_errors, yielded, consumed_files, build_errors, ds, rpc, rindex,
          geom, dcm_array, pixel_value_dtype, inverter, meta, exc, e2e, cf,
          fds, conv, mhd>>

-----------------------------------------------------------------------------
(* Input files *)

\* A file that holds nothing any builder can decode.
\* Tags read by DicomDataset.read: pos is ImagePositionPatient (<<>> when
\* absent), fpos the ImagePositionPatient of every item of
\* PerFrameFunctionalGroupsSequence (<<>> when the file has no such sequence),
\* orient is ImageOrientationPatient as <<row_cos, col_cos>> (<<>> when
\* absent), dtype and raw are the type and the value of the stored samples,
\* slope and intercept are RescaleSlope and RescaleIntercept (1 and 0 when
\* absent), photo is PhotometricInterpretation, wc and ww are WindowCenter and
\* WindowWidth as lists of values (<<>> when absent), pid is PatientID (its
\* length and whether it holds a backslash), sdate is StudyDate (its length,
\* whether it is all digits, and the year, month and day its digits spell);
\* an absent tag reads as the empty string.  samples is SamplesPerPixel,
\* spacing the first PixelSpacing found anywhere in the header, nested
\* sequences included (<<>> when there is none).
EmptyLO == [len |-> 0, backslash |-> FALSE]

EmptyDA == [len |-> 0, digits |-> TRUE, year |-> 0, month |-> 0, day |-> 0]

Junk ==
    [fmt |-> "junk", study |-> 0, series |-> 0, stack |-> 0, sop |-> 0,
     inst |-> 0, tpi |-> 0, frames |-> 1, get |-> "caught", vols |-> <<>>,
     pos |-> <<>>, fpos |-> <<>>, orient |-> <<>>, dtype |-> "int16",
     raw |-> 0, slope |-> 1, intercept |-> 0, photo |-> "MONOCHROME2",
     wc |-> <<>>, ww |-> <<>>, pid |-> EmptyLO, sdate |-> EmptyDA,
     samples |-> 1, spacing |-> <<>>]

\* A DICOM file with the header tags the grouper and the validator read.
Dcm(study, series, stack, sop, inst, tpi, frames) ==
    [Junk EXCEPT !.fmt = "dcm", !.study = study, !.series = series,
                 !.stack = stack, !.sop = sop, !.inst = inst, !.tpi = tpi,
                 !.frames = frames]

\* An OCT container: get is how _get_image ends for it ("ok", "caught": one
\* of the exceptions image_builder_oct catches, "uncaught": any other), vols
\* holds one entry per volume read from it, TRUE when _create_itk_oct_volume
\* succeeds for that volume and FALSE when it raises ValueError.
Oct(fmt, get, vols) == [Junk EXCEPT !.fmt = fmt, !.get = get, !.vols = vols]

BoolSeqs(n) == UNION {[1..k -> BOOLEAN] : k \in 0..n}

\* No E2E reader has been made, read_custom_float has not been called.
NoE2E ==
    [at |-> "idle", chunks |-> <<>>, i |-> 1, laterality |-> "unset",
     chunk_stack |-> <<>>, volume_array_dict |-> <<>>, j |-> 1,
     oct_volumes |-> <<>>, exc |-> "none"]

\* No FDS reader has been made.
NoFDS ==
    [at |-> "idle", bytes |-> <<>>, pos |-> 0, chunk_dict |-> {},
     exc |-> "none"]

\* convert has not been called.  stack holds the calls of
\* _convert_directory in progress, calls the calls of _build_files made.
NoConv ==
    [at |-> "idle", builders |-> <<>>, stack |-> <<>>, consumed_files |-> {},
     file_errors |-> <<>>, calls |-> <<>>]

\* image_builder_mhd has not bound simple_itk_image (0), or has bound it to
\* the image loaded from a file.
NoMhd == [simple_itk_image |-> 0]

\* A file as image_builder_mhd sees it: header is "invalid" (parse_mh_header
\* raises ValidationError), "unsafe" (detect_mhd_file raises ValueError),
\* "other" (neither mhd nor mha), "mha" or "mhd"; load is how load_sitk_image
\* ends ("ok", "ValidationError", "RuntimeError"); dep is the data file of an
\* mhd header (0: none).
Mhd(header, load, dep) ==
    [header |-> header, load |-> load, dep |-> dep] @@ [Junk EXCEPT !.fmt = "mh"]

NoFloat ==
    [at |-> "idle", bytes |-> <<0, 0>>, value |-> [num |-> 0, exp |-> 0]]

-----------------------------------------------------------------------------
(* Error map helpers (defaultdict(list)) *)

AddError(errs, f, msg) ==
    [g \in DOMAIN errs \cup {f} |->
        IF g = f
        THEN Append(IF f \in DOMAIN errs THEN errs[f] ELSE <<>>, msg)
        ELSE errs[g]]

RECURSIVE AddErrors(_, _, _)
AddErrors(errs, fs, msg) ==
    IF fs = <<>> THEN errs
    ELSE AddErrors(AddError(errs, Head(fs), msg), Tail(fs), msg)

format_error(message) == <<"Dicom image builder", message>>

oct_format_error(message) == <<"OCT image builder", message>>

mhd_format_error(message) == <<"Mhd image builder", message>>

Range(s) == {s[i] : i \in 1..Len(s)}

-----------------------------------------------------------------------------
(* _get_headers_by_study *)

\* pydicom.dcmread(f, stop_before_pixels=True) returns a dataset.
HeaderDecodes(h) == h.fmt = "dcm"

\* The key tuple can be built: ds.StudyInstanceUID, ds.SeriesInstanceUID (the
\* default of getattr is evaluated even when StackID is present) and
\* ds.SOPClassUID all exist.
KeyReadable(h) == h.study # 0 /\ h.series # 0 /\ h.sop # 0

GroupKeyNoSop(h) == <<h.study, IF h.stack # 0 THEN h.stack ELSE h.series, 0>>

GroupKey(h) == <<h.study, IF h.stack # 0 THEN h.stack ELSE h.series, h.sop>>

InstanceNumber(f) == input[f].inst

\* list.sort(key=InstanceNumber): stable, ascending.
RECURSIVE SortByInstance(_)
SortByInstance(s) ==
    IF s = <<>> THEN <<>>
    ELSE LET rest == SortByInstance(SubSeq(s, 1, Len(s) - 1))
             x == s[Len(s)]
             n == Cardinality({i \in 1..Len(rest) :
                                 InstanceNumber(rest[i]) <= InstanceNumber(x)})
         IN SubSeq(rest, 1, n) \o <<x>> \o SubSeq(rest, n + 1, Len(rest))

\* One iteration of "for file in files" (set iteration: any order).
ReadHeader(f) ==
    /\ pc = "headers"
    /\ f \in pending
    /\ pending' = pending \ {f}
    /\ IF HeaderDecodes(input[f]) /\ KeyReadable(input[f])
       THEN LET key == GroupKey(input[f])
                index == Cardinality({k \in DOMAIN names : k[1] = key[1]})
            IN /\ studies' = [k \in DOMAIN studies \cup {key} |->
                                IF k \in DOMAIN studies
                                THEN IF k = key THEN Append(studies[k], f)
                                     ELSE studies[k]
                                ELSE <<f>>]
               /\ keys' = IF key \in DOMAIN studies THEN keys
                          ELSE Append(keys, key)
               /\ names' = IF key \in DOMAIN names THEN names
                           ELSE [k \in DOMAIN names \cup {key} |->
                                   IF k = key THEN <<key[1], index>>
                                   ELSE names[k]]
               /\ UNCHANGED file_errors
       ELSE /\ file_errors' = AddError(file_errors, f, format_error("decode"))
            /\ UNCHANGED <<studies, keys, names>>
    /\ UNCHANGED <<builder, input, pc, idx, result, yielded, consumed_files,
                   build_errors>>
    /\ UNCHANGED readVars
    /\ UNCHANGED decodeVars

\* Some grouped header has no InstanceNumber: the sort key raises.
SortKeyRaises ==
    \E k \in DOMAIN studies : \E f \in Range(studies[k]) : InstanceNumber(f) = 0

\* The loop is over; every group's headers are sorted by InstanceNumber.
SortHeaders ==
    /\ pc = "headers"
    /\ pending = {}
    /\ ~SortKeyRaises
    /\ studies' = [k \in DOMAIN studies |-> SortByInstance(studies[k])]
    /\ pc' = "validate"
    /\ idx' = 1
    /\ UNCHANGED <<builder, input, pending, keys, names, result, file_errors,
                   yielded, consumed_files, build_errors>>
    /\ UNCHANGED readVars
    /\ UNCHANGED decodeVars

\* x["data"].InstanceNumber raises AttributeError outside any try block: it
\* leaves image_builder_dicom, and _build_files catches only
\* UnconsumedFilesException.
SortHeadersRaises ==
    /\ pc = "headers"
    /\ pending = {}
    /\ SortKeyRaises
    /\ pc' = "crashed"
    /\ UNCHANGED <<builder, input, pending, studies, keys, names, idx, result,
                   file_errors, yielded, consumed_files, build_errors>>
    /\ UNCHANGED readVars
    /\ UNCHANGED decodeVars

-----------------------------------------------------------------------------
(* _find_valid_dicom_files *)

DicomDataset(name, headers, n_time, n_slices, n_slices_per_file) ==
    [name |-> name, headers |-> headers, n_time |-> n_time,
     n_slices |-> n_slices, n_slices_per_file |-> n_slices_per_file]

Invalid4DSwapped(n_files, n_time) == n_time % n_files > 0

\* elif len(headers) % n_time > 0
Invalid4D(n_files, n_time) == n_files % n_time > 0

\* len(data.PerFrameFunctionalGroupsSequence), else NumberOfFrames (default 1)
SlicesPerFile(data) ==
    IF data.fpos # <<>> THEN Len(data.fpos) ELSE data.frames

\* The loop body of _find_valid_dicom_files for one group: the dataset it
\* appends, or none for an invalid 4D group.
ValidGroup(name, headers) ==
    LET data == input[headers[Len(headers)]]
        n_files == Len(headers)
        n_time == data.tpi
        n_slices_per_file == SlicesPerFile(data)
        n_slices == n_files * n_slices_per_file
    IN IF n_time < 1
       THEN [valid |-> TRUE,
             dataset |-> DicomDataset(name, headers, 0, n_slices,
                                      n_slices_per_file)]
       ELSE IF Invalid4D(n_files, n_time)
       THEN [valid |-> FALSE,
             dataset |-> DicomDataset(name, headers, n_time, 0,
                                      n_slices_per_file)]
       ELSE [valid |-> TRUE,
             dataset |-> DicomDataset(name, headers, n_time,
                                      n_slices \div n_time,
                                      n_slices_per_file)]

\* One iteration of "for key in studies".
ValidateStudy ==
    /\ pc = "validate"
    /\ idx <= Len(keys)
    /\ LET key == keys[idx]
           headers == studies[key]
           group == ValidGroup(names[key], headers)
       IN IF group.valid
          THEN /\ result' = Append(result, group.dataset)
               /\ UNCHANGED file_errors
          ELSE /\ file_errors' = AddErrors(file_errors, headers,
                     format_error("Number of slices per time point differs"))
               /\ UNCHANGED result
    /\ idx' = idx + 1
    /\ UNCHANGED <<builder, input, pc, pending, studies, keys, names, yielded,
                   consumed_files, build_errors>>
    /\ UNCHANGED readVars
    /\ UNCHANGED decodeVars

\* return result
ValidateDone ==
    /\ pc = "validate"
    /\ idx > Len(keys)
    /\ pc' = "read"
    /\ idx' = 1
    /\ UNCHANGED <<builder, input, pending, studies, keys, names, result,
                   file_errors, yielded, consumed_files, build_errors>>
    /\ UNCHANGED readVars
    /\ UNCHANGED decodeVars

-----------------------------------------------------------------------------
(* image_builder_dicom under _build_files *)

AllGroupedFiles(headers) == UNION {Range(studies[k]) : k \in DOMAIN studies}

\* DicomDataset.read: consumed_files={d["file"] for d in self.headers}
DatasetConsumedFiles(headers) == Range(headers)

\* dicom_ds.read() returns; the record is yielded and _build_files adds its
\* consumed files.
ReadDataset ==
    /\ pc = "read"
    /\ idx <= Len(result)
    /\ LET rec == [name |-> result[idx].name,
                   consumed_files |-> DatasetConsumedFiles(result[idx].headers)]
       IN /\ yielded' = Append(yielded, rec)
          /\ consumed_files' = consumed_files \cup rec.consumed_files
    /\ idx' = idx + 1
    /\ UNCHANGED <<builder, input, pc, pending, studies, keys, names, result,
                   file_errors, build_errors>>
    /\ UNCHANGED readVars
    /\ UNCHANGED decodeVars

\* dicom_ds.read() raises: the error is recorded for every file of the group.
ReadDatasetRaises ==
    /\ pc = "read"
    /\ idx <= Len(result)
    /\ file_errors' = AddErrors(file_errors, result[idx].headers,
                                format_error("read"))
    /\ idx' = idx + 1
    /\ UNCHANGED <<builder, input, pc, pending, studies, keys, names, result,
                   yielded, consumed_files, build_errors>>
    /\ UNCHANGED readVars
    /\ UNCHANGED decodeVars

DicomLoopDone == pc = "read" /\ idx > Len(result)

-----------------------------------------------------------------------------
(* image_builder_oct under _build_files *)

OctFormats == {"fds", "fda", "e2e"}

\* The volumes of a container that are yielded: those before the first one
\* whose conversion raises.
RECURSIVE YieldedVolumes(_)
YieldedVolumes(vols) ==
    IF vols = <<>> \/ ~Head(vols) THEN <<>>
    ELSE <<TRUE>> \o YieldedVolumes(Tail(vols))

\* _create_itk_oct_volume: consumed_files={file}
VolumeRecord(f) == [name |-> <<f, 0>>, consumed_files |-> {f}]

RECURSIVE AppendCopies(_, _, _)
AppendCopies(s, n, rec) ==
    IF n = 0 THEN s ELSE AppendCopies(Append(s, rec), n - 1, rec)

\* One iteration of "for file in files": _get_image returns and the volumes
\* are yielded one by one; a ValueError raised while converting a volume is
\* caught after the earlier volumes of the file were yielded.
OctFile(f) ==
    /\ pc = "oct"
    /\ f \in pending
    /\ input[f].fmt \in OctFormats
    /\ input[f].get = "ok"
    /\ pending' = pending \ {f}
    /\ LET n == Len(YieldedVolumes(input[f].vols))
       IN /\ yielded' = AppendCopies(yielded, n, VolumeRecord(f))
          /\ consumed_files' = IF n > 0 THEN consumed_files \cup {f}
                               ELSE consumed_files
          /\ file_errors' =
                IF n < Len(input[f].vols)
                THEN AddError(file_errors, f, oct_format_error(
                        "Not a valid OCT file (supported formats: .fds,.fda,.e2e)"))
                ELSE file_errors
    /\ UNCHANGED <<builder, input, pc, studies, keys, names, idx, result,
                   build_errors>>
    /\ UNCHANGED readVars
    /\ UNCHANGED decodeVars

\* _get_image raises OSError, ValidationError, StreamError, ValueError or
\* IndexError (an unknown signature raises ValueError).
OctFileInvalid(f) ==
    /\ pc = "oct"
    /\ f \in pending
    /\ input[f].fmt \notin OctFormats \/ input[f].get = "caught"
    /\ pending' = pending \ {f}
    /\ file_errors' = AddError(file_errors, f, oct_format_error(
            "Not a valid OCT file (supported formats: .fds,.fda,.e2e)"))
    /\ UNCHANGED <<builder, input, pc, studies, keys, names, idx, result,
                   yielded, consumed_files, build_errors>>
    /\ UNCHANGED readVars
    /\ UNCHANGED decodeVars

\* _get_image raises anything else (KeyError for a missing @PARAM_SCAN_04
\* chunk, AttributeError for E2E.laterality never set): it leaves the builder.
OctFileRaises(f) ==
    /\ pc = "oct"
    /\ f \in pending
    /\ input[f].fmt \in OctFormats
    /\ input[f].get = "uncaught"
    /\ pc' = "crashed"
    /\ UNCHANGED <<builder, input, pending, studies, keys, names, idx, result,
                   file_errors, yielded, consumed_files, build_errors>>
    /\ UNCHANGED readVars
    /\ UNCHANGED decodeVars

OctLoopDone == pc = "oct" /\ pending = {}

-----------------------------------------------------------------------------
(* The end of a builder and of _build_files *)

\* if file_errors: raise UnconsumedFilesException(file_errors=file_errors);
\* _build_files: except UnconsumedFilesException as e: file_errors = e.file_errors
BuilderRaisesUnconsumed ==
    /\ DicomLoopDone \/ OctLoopDone \/ (pc = "mhd" /\ pending = {})
    /\ DOMAIN file_errors # {}
    /\ build_errors' = file_errors
    /\ pc' = "returned"
    /\ UNCHANGED <<builder, input, pending, studies, keys, names, idx, result,
                   file_errors, yielded, consumed_files>>
    /\ UNCHANGED readVars
    /\ UNCHANGED decodeVars

\* The generator is exhausted; _build_files returns with file_errors = {}.
BuilderReturns ==
    /\ DicomLoopDone \/ OctLoopDone \/ (pc = "mhd" /\ pending = {})
    /\ DOMAIN file_errors = {}
    /\ pc' = "returned"
    /\ UNCHANGED <<builder, input, pending, studies, keys, names, idx, result,
                   file_errors, yielded, consumed_files, build_errors>>
    /\ UNCHANGED readVars
    /\ UNCHANGED decodeVars

-----------------------------------------------------------------------------
(* Arithmetic of the sample types *)

IntTypes == {"int16", "uint16"}

\* Two's complement wrap-around of fixed-width integer arithmetic.
Wrap(t, v) ==
    IF t = "uint16" THEN v % 65536
    ELSE ((v + 32768) % 65536) - 32768

Abs(x) == IF x < 0 THEN -x ELSE x

Sign(x) == IF x > 0 THEN 1 ELSE IF x < 0 THEN -1 ELSE 0

\* The distance between neighbouring float32 values at magnitude m.
RECURSIVE Ulp(_)
Ulp(m) == IF m < 16777216 THEN 1 ELSE 2 * Ulp(m \div 2)

\* Rounding of an integer to float32: to nearest, ties to even.
RoundF32(x) ==
    LET m == Abs(x)
        u == Ulp(m)
        q == m \div u
        r == m % u
        up == IF 2 * r > u \/ (2 * r = u /\ q % 2 = 1) THEN q + 1 ELSE q
    IN Sign(x) * up * u

\* ndarray.astype(t) / np.asarray(v, dtype=t) of an integer value
AsType(t, v) == IF t = "float32" THEN RoundF32(v) ELSE Wrap(t, v)

\* np.add in element type t
NpAdd(t, a, b) == IF t = "float32" THEN RoundF32(a + b) ELSE Wrap(t, a + b)

\* unary minus in element type t
NpNegative(t, a) == IF t = "float32" THEN -a ELSE Wrap(t, -a)

Min(S) == CHOOSE x \in S : \A y \in S : x <= y

Max(S) == CHOOSE x \in S : \A y \in S : x >= y

Reverse(s) == [i \in 1..Len(s) |-> s[Len(s) + 1 - i]]

-----------------------------------------------------------------------------
(* class PixelValueInverter *)

NoInverter == [offset |-> 0, dtype |-> "none"]

Samples(image) == {image.planes[i].v : i \in 1..Len(image.planes)}

\* __init__: offset = np.add(np.min(image), np.max(image)), dtype = image.dtype
PixelValueInverter(image) ==
    [offset |-> NpAdd(image.dtype, Min(Samples(image)), Max(Samples(image))),
     dtype |-> image.dtype]

\* A subtraction that clips at the ends of the type instead of wrapping.
invertSaturating(self, v) ==
    LET d == self.offset - v
    IN IF self.dtype = "float32" THEN RoundF32(d)
       ELSE IF self.dtype = "uint16"
            THEN (IF d < 0 THEN 0 ELSE IF d > 65535 THEN 65535 ELSE d)
            ELSE (IF d < -32768 THEN -32768 ELSE IF d > 32767 THEN 32767 ELSE d)

\* invert, for one value: a = np.asarray(v, dtype); np.add(-a, offset)
invert(self, v) ==
    NpAdd(self.dtype, NpNegative(self.dtype, AsType(self.dtype, v)),
          self.offset)

-----------------------------------------------------------------------------
(* class DicomDataset: geometry *)

NoDataset == DicomDataset(<<0, 0>>, <<>>, 0, 0, 0)

ref_header(self) == input[self.headers[1]]

\* The dimension that is 4 for every n_time that is present.
dimensionsIfTime(self) == IF self.n_time >= 1 THEN 4 ELSE 3

\* 4 if self.n_time and self.n_time > 1 else 3
dimensions(self) == IF self.n_time > 1 THEN 4 ELSE 3

VecAdd(a, b) == <<a[1] + b[1], a[2] + b[2], a[3] + b[3]>>

VecSub(a, b) == <<a[1] - b[1], a[2] - b[2], a[3] - b[3]>>

Dot(a, b) == a[1] * b[1] + a[2] * b[2] + a[3] * b[3]

Cross(a, b) ==
    <<a[2] * b[3] - a[3] * b[2],
      a[3] * b[1] - a[1] * b[3],
      a[1] * b[2] - a[2] * b[1]>>

\* The columns of the rotation matrix: row_cos, col_cos and their cross
\* product; (1, 0, 0) and (0, 1, 0) when ImageOrientationPatient is missing.
direction(self) ==
    LET o == ref_header(self).orient
        row_cos == IF o = <<>> THEN <<1, 0, 0>> ELSE o[1]
        col_cos == IF o = <<>> THEN <<0, 1, 0>> ELSE o[2]
    IN <<row_cos, col_cos, Cross(row_cos, col_cos)>>

\* self.direction @ np.ones(self.dimensions), first three components (the
\* fourth multiplies the padding 0 of avg_origin_diff).
z_direction(self) ==
    LET d == direction(self) IN VecAdd(VecAdd(d[1], d[2]), d[3])

RECURSIVE Present(_)
Present(positions) ==
    IF positions = <<>> THEN <<>>
    ELSE IF Head(positions) = <<>> THEN Present(Tail(positions))
         ELSE <<Head(positions)>> \o Present(Tail(positions))

\* _iter_origins: the positions of the files that have one, or of the frames
\* of the first file when it has frame details.
iter_origins(self) ==
    IF self.n_slices_per_file = 1 \/ ref_header(self).fpos = <<>>
    THEN Present([i \in 1..Len(self.headers) |-> input[self.headers[i]].pos])
    ELSE Present(ref_header(self).fpos)

\* A loop that skips an origin only when it equals the one just before it.
RECURSIVE OriginLoopConsecutive(_, _)
OriginLoopConsecutive(origins, acc) ==
    IF origins = <<>> THEN acc
    ELSE LET file_origin == Head(origins)
         IN IF acc.origin = file_origin
            THEN OriginLoopConsecutive(Tail(origins), acc)
            ELSE OriginLoopConsecutive(Tail(origins),
                    [origin |-> file_origin,
                     origin_diff |->
                        IF acc.origin # <<>>
                        THEN VecAdd(acc.origin_diff,
                                    VecSub(file_origin, acc.origin))
                        ELSE acc.origin_diff,
                     n_diffs |-> IF acc.origin # <<>> THEN acc.n_diffs + 1
                                 ELSE acc.n_diffs,
                     origin_seen |-> Append(acc.origin_seen, file_origin)])

\* The loop of _determine_slice_order; positions are integers, so
\* np.allclose is equality.
RECURSIVE OriginLoop(_, _)
OriginLoop(origins, acc) ==
    IF origins = <<>> THEN acc
    ELSE LET file_origin == Head(origins)
         IN IF \E i \in 1..Len(acc.origin_seen) :
                  acc.origin_seen[i] = file_origin
            THEN OriginLoop(Tail(origins), acc)
            ELSE OriginLoop(Tail(origins),
                    [origin |-> file_origin,
                     origin_diff |->
                        IF acc.origin # <<>>
                        THEN VecAdd(acc.origin_diff,
                                    VecSub(file_origin, acc.origin))
                        ELSE acc.origin_diff,
                     n_diffs |-> IF acc.origin # <<>> THEN acc.n_diffs + 1
                                 ELSE acc.n_diffs,
                     origin_seen |-> Append(acc.origin_seen, file_origin)])

\* np.sign(np.dot(avg_origin_diff, z_direction)); the average is the sum
\* divided by n_diffs > 0, which has the sign of the sum.
SliceOrderSign(origin_diff, zdir) == Sign(Dot(origin_diff, zdir))

NoGeometry ==
    [origin |-> <<>>, origin_diff |-> <<0, 0, 0>>, n_diffs |-> 0, z_order |-> 0,
     spacing |-> <<>>]

\* direction: np.eye(self.dimensions) with the three columns in its upper
\* left corner, as a sequence of rows.
direction_matrix(self) ==
    [i \in 1..dimensions(self) |->
        [j \in 1..dimensions(self) |->
            IF i <= 3 /\ j <= 3 THEN direction(self)[j][i]
            ELSE IF i = j THEN 1 ELSE 0]]

\* The origin that is always the first position seen.
SliceOriginFirst(acc, z_order) ==
    IF acc.origin = <<>> THEN <<0, 0, 0>> ELSE acc.origin_seen[1]

\* _determine_slice_order, the actual origin: slices might need reordering.
SliceOrigin(acc, z_order) ==
    IF acc.origin = <<>> THEN <<0, 0, 0>>
    ELSE IF z_order >= 0 THEN acc.origin_seen[1] ELSE acc.origin

\* _determine_slice_order: origin, spacing and z_order as returned; the z
\* spacing is the norm of origin_diff / n_diffs and is kept as these two
\* (1.0 when there is no difference and no SpacingBetweenSlices).
determine_slice_order(self) ==
    LET acc == OriginLoop(iter_origins(self),
                  [origin |-> <<>>, origin_diff |-> <<0, 0, 0>>,
                   n_diffs |-> 0, origin_seen |-> <<>>])
        z_order == IF acc.n_diffs = 0 THEN 0
                   ELSE SliceOrderSign(acc.origin_diff, z_direction(self))
        origin3 == SliceOrigin(acc, z_order)
    IN [origin |-> IF dimensions(self) = 4 THEN Append(origin3, 0)
                   ELSE origin3,
        origin_diff |-> acc.origin_diff,
        n_diffs |-> acc.n_diffs,
        z_order |-> z_order,
        spacing |->
            LET pixel_spacing == IF ref_header(self).spacing = <<>>
                                 THEN <<1, 1>> ELSE ref_header(self).spacing
                z_i == IF acc.n_diffs = 0 THEN [diff |-> <<0, 0, 1>>, n |-> 1]
                       ELSE [diff |-> acc.origin_diff, n |-> acc.n_diffs]
                spacing3 == <<pixel_spacing[1], pixel_spacing[2], z_i>>
            IN IF dimensions(self) = 4 THEN Append(spacing3, 1)
               ELSE spacing3]

\* read: origin, spacing, z_order = self._determine_slice_order()
DetermineSliceOrder ==
    /\ rpc = "order"
    /\ geom' = determine_slice_order(ds)
    /\ rpc' = "pixels"
    /\ rindex' = 1
    /\ UNCHANGED <<input, exc, ds, dcm_array, pixel_value_dtype, inverter, meta>>
    /\ UNCHANGED batchVars
    /\ UNCHANGED decodeVars

-----------------------------------------------------------------------------
(* class DicomDataset: pixel data *)

\* any(not isclose(slope, 1.0)) or any(not isclose(intercept, 0.0)); the
\* slopes and intercepts of the model are integers.
pixel_values_need_scaling(self) ==
    \E i \in 1..Len(self.headers) :
        \/ input[self.headers[i]].slope # 1
        \/ input[self.headers[i]].intercept # 0

\* self._pixel_value_dtype once _read_pixel_values has read file f.
PixelValueDtype(f, rescale, cached) ==
    IF cached # "none" THEN cached
    ELSE IF rescale THEN "float32" ELSE input[f].dtype

\* _read_pixel_values: ds.pixel_array.astype(dtype), then
\* slope * pixel_array + intercept when rescale.  The array has a leading
\* frame axis when the file holds several frames and a trailing axis of
\* samples when a pixel has several samples.
read_pixel_values(f, rescale, dtype) ==
    LET h == input[f]
        stored == AsType(dtype, h.raw)
        v == IF rescale
             THEN NpAdd(dtype, RoundF32(h.slope * stored), h.intercept)
             ELSE stored
        frames == SlicesPerFile(h)
    IN [dtype |-> dtype,
        lead |-> IF frames > 1 THEN <<frames>> ELSE <<>>,
        samples |-> h.samples,
        planes |-> [k \in 1..frames |-> [file |-> f, frame |-> k, v |-> v]]]

NoArray == [dtype |-> "none", lead |-> <<0>>, samples |-> 1, planes |-> <<>>]

\* int(getattr(self.ref_header, "SamplesPerPixel", 1))
samples_per_pixel(self) == ref_header(self).samples

\* len(array.shape)
Rank(array) == Len(array.lead) + 2 + (IF array.samples > 1 THEN 1 ELSE 0)

\* _shape without Rows and Columns
shape(self) ==
    IF dimensions(self) = 4 THEN <<self.n_time, self.n_slices>>
    ELSE <<self.n_slices>>

RECURSIVE Product(_)
Product(s) == IF s = <<>> THEN 1 ELSE Head(s) * Product(Tail(s))

\* np.zeros(pixel_dims, dtype=pixel_array.dtype)
Zeros(self, dtype) ==
    [dtype |-> dtype, lead |-> shape(self), samples |-> samples_per_pixel(self),
     planes |-> [i \in 1..Product(shape(self)) |->
                    [file |-> 0, frame |-> 0, v |-> 0]]]

\* len(pixel_array.shape) == self.dimensions or pixel_array.shape == pixel_dims
IsWholeVolume(self, pixel_array) ==
    \/ Rank(pixel_array) = dimensions(self)
    \/ /\ pixel_array.lead = shape(self)
       /\ pixel_array.samples = samples_per_pixel(self)

\* pixel_array[tuple(slicing)]: the axis third from last of the slicing is
\* reversed when z_order < 0.
WholeVolume(pixel_array, z_order) ==
    IF z_order >= 0 THEN pixel_array
    ELSE LET n == pixel_array.lead[Len(pixel_array.lead)]
         IN [pixel_array EXCEPT !.planes =
                [i \in 1..Len(pixel_array.planes) |->
                    pixel_array.planes[((i - 1) \div n) * n
                                       + (n - 1 - ((i - 1) % n)) + 1]]]

ZIndexForward(index, n, z_order) == index

\* z_index = index if z_order >= 0 else len(self.headers) - index - 1
ZIndex(index, n, z_order) == IF z_order >= 0 THEN index ELSE n - index - 1

\* The assignment writes a whole time point (z = slice(None)).
TargetIsRow(self) == dimensions(self) = 4 /\ self.n_slices_per_file # 1

\* The places of dcm_array (row-major, from 1) the assignment writes.
Target(self, index, z_index) ==
    IF dimensions(self) = 4
    THEN LET row == (index \div self.n_slices) * self.n_slices
         IN IF self.n_slices_per_file = 1
            THEN {row + (z_index % self.n_slices) + 1}
            ELSE {row + z + 1 : z \in 0..(self.n_slices - 1)}
    ELSE {(z_index % self.n_slices) + 1}

\* The assigned array broadcasts to the target and the target exists.
Assignable(self, pixel_array, target, array) ==
    /\ \/ pixel_array.lead = <<>>
       \/ TargetIsRow(self) /\ pixel_array.lead = <<self.n_slices>>
    /\ pixel_array.samples = array.samples
    /\ target \subseteq 1..Len(array.planes)

Assign(array, target, pixel_array) ==
    [array EXCEPT !.planes =
        [i \in 1..Len(array.planes) |->
            IF i \in target
            THEN IF Len(pixel_array.planes) = 1 THEN pixel_array.planes[1]
                 ELSE pixel_array.planes[i - Min(target) + 1]
            ELSE array.planes[i]]]

\* One iteration of the loop of _create_itk_from_dcm that takes the array of
\* the file as the whole volume and leaves the loop.
ReadWholeVolume ==
    /\ rpc = "pixels"
    /\ LET f == ds.headers[rindex]
           rescale == pixel_values_need_scaling(ds)
           dtype == PixelValueDtype(f, rescale, pixel_value_dtype)
           pixel_array == read_pixel_values(f, rescale, dtype)
       IN /\ IsWholeVolume(ds, pixel_array)
          /\ pixel_value_dtype' = dtype
          /\ dcm_array' = WholeVolume(pixel_array, geom.z_order)
    /\ rpc' = "photometric"
    /\ UNCHANGED <<input, exc, ds, rindex, geom, inverter, meta>>
    /\ UNCHANGED batchVars
    /\ UNCHANGED decodeVars

\* One iteration of the loop that adds the slice(s) of a file to the volume.
ReadSlice ==
    /\ rpc = "pixels"
    /\ LET f == ds.headers[rindex]
           index == rindex - 1
           rescale == pixel_values_need_scaling(ds)
           dtype == PixelValueDtype(f, rescale, pixel_value_dtype)
           pixel_array == read_pixel_values(f, rescale, dtype)
           array == IF dcm_array = NoArray THEN Zeros(ds, dtype)
                    ELSE dcm_array
           z_index == ZIndex(index, Len(ds.headers), geom.z_order)
           target == Target(ds, index, z_index)
       IN /\ ~IsWholeVolume(ds, pixel_array)
          /\ Assignable(ds, pixel_array, target, array)
          /\ pixel_value_dtype' = dtype
          /\ dcm_array' = Assign(array, target, pixel_array)
    /\ rindex' = rindex + 1
    /\ rpc' = IF rindex = Len(ds.headers) THEN "photometric" ELSE "pixels"
    /\ UNCHANGED <<input, exc, ds, geom, inverter, meta>>
    /\ UNCHANGED batchVars
    /\ UNCHANGED decodeVars

\* The assignment raises (the shapes do not broadcast): read raises.
ReadSliceRaises ==
    /\ rpc = "pixels"
    /\ LET f == ds.headers[rindex]
           index == rindex - 1
           rescale == pixel_values_need_scaling(ds)
           dtype == PixelValueDtype(f, rescale, pixel_value_dtype)
           pixel_array == read_pixel_values(f, rescale, dtype)
           array == IF dcm_array = NoArray THEN Zeros(ds, dtype)
                    ELSE dcm_array
           z_index == ZIndex(index, Len(ds.headers), geom.z_order)
           target == Target(ds, index, z_index)
       IN /\ ~IsWholeVolume(ds, pixel_array)
          /\ ~Assignable(ds, pixel_array, target, array)
          /\ pixel_value_dtype' = dtype
          /\ dcm_array' = array
    /\ rpc' = "raised"
    /\ exc' = "ValueError"
    /\ UNCHANGED <<input, ds, rindex, geom, inverter, meta>>
    /\ UNCHANGED batchVars
    /\ UNCHANGED decodeVars

\* The end of _create_itk_from_dcm: a MONOCHROME1 volume of one sample per
\* pixel is inverted.
ApplyPhotometric ==
    /\ rpc = "photometric"
    /\ IF samples_per_pixel(ds) <= 1 /\ ref_header(ds).photo = "MONOCHROME1"
       THEN LET self == PixelValueInverter(dcm_array)
            IN /\ inverter' = self
               /\ dcm_array' = [dcm_array EXCEPT !.planes =
                     [i \in 1..Len(dcm_array.planes) |->
                         [dcm_array.planes[i] EXCEPT
                             !.v = invert(self, dcm_array.planes[i].v)]]]
       ELSE UNCHANGED <<inverter, dcm_array>>
    /\ rpc' = "metadata"
    /\ UNCHANGED <<input, exc, ds, rindex, geom, pixel_value_dtype, meta>>
    /\ UNCHANGED batchVars
    /\ UNCHANGED decodeVars

NoMeta ==
    [WindowCenter |-> <<>>, WindowWidth |-> <<>>, PatientID |-> EmptyLO,
     StudyDate |-> EmptyDA, ContentTimes |-> <<>>, Exposures |-> <<>>]

\* DICOM_VR_TO_VALIDATION_REGEXP["LO"]: ^[^\\]{0,64}$
MatchesLO(value) == ~value.backslash /\ value.len <= 64

\* DICOM_VR_TO_VALIDATION_REGEXP["DA"]: ^\d{8}$
MatchesDA(value) == value.digits /\ value.len = 8

DaysInMonth(year, month) ==
    IF month = 2
    THEN (IF year % 4 = 0 /\ (year % 100 # 0 \/ year % 400 = 0) THEN 29
          ELSE 28)
    ELSE IF month \in {4, 6, 9, 11} THEN 30 ELSE 31

\* DICOM_VR_TO_VALUE_CAST["DA"]: datetime.date(year, month, day) raises
\* ValueError.
CastDARaises(value) ==
    \/ value.year \notin 1..9999
    \/ value.month \notin 1..12
    \/ value.day \notin 1..DaysInMonth(value.year, value.month)

\* ExtraMetaData.validate_value raises ValidationError for PatientID (VR LO,
\* no cast that can fail) or for StudyDate (VR DA).
PatientIDRaises(value) == value.len # 0 /\ ~MatchesLO(value)

StudyDateRaises(value) ==
    value.len # 0 /\ (~MatchesDA(value) \/ CastDARaises(value))

\* validate_metadata_value raises for one of the fields of the loop.
OptionalMetadataRaises(self) ==
    \/ PatientIDRaises(ref_header(self).pid)
    \/ StudyDateRaises(ref_header(self).sdate)

\* _add_optional_metadata for WindowCenter, WindowWidth, PatientID and
\* StudyDate: an empty value is skipped, WindowCenter goes through the
\* inverter when there is one.
add_optional_metadata(self, inv, img) ==
    LET value == ref_header(self).wc
    IN [img EXCEPT
          !.WindowCenter =
              IF inv # NoInverter
              THEN [i \in 1..Len(value) |-> invert(inv, value[i])]
              ELSE value,
          !.WindowWidth = ref_header(self).ww,
          !.PatientID = ref_header(self).pid,
          !.StudyDate = ref_header(self).sdate]

\* _add_optional_metadata raises ValidationError: nothing catches it in
\* read.
AddOptionalMetadataRaises ==
    /\ rpc = "metadata"
    /\ OptionalMetadataRaises(ds)
    /\ rpc' = "raised"
    /\ exc' = "ValidationError"
    /\ UNCHANGED <<input, ds, rindex, geom, dcm_array, pixel_value_dtype,
                   inverter, meta>>
    /\ UNCHANGED batchVars
    /\ UNCHANGED decodeVars

\* read: the geometry is set and the optional metadata added.
AddOptionalMetadata ==
    /\ rpc = "metadata"
    /\ ~OptionalMetadataRaises(ds)
    /\ meta' = add_optional_metadata(ds, inverter, meta)
    /\ rpc' = IF dimensions(ds) = 4 THEN "temporal" ELSE "done"
    /\ UNCHANGED <<input, exc, ds, rindex, geom, dcm_array, pixel_value_dtype,
                   inverter>>
    /\ UNCHANGED batchVars
    /\ UNCHANGED decodeVars

\* Every file from index on.
TemporalFilesAll(self, index) == SubSeq(self.headers, index + 1, Len(self.headers))

\* The files whose ContentTime and Exposure _add_temporal_metadata lists.
RECURSIVE TemporalFiles(_, _)
TemporalFiles(self, index) ==
    IF index >= Len(self.headers) THEN <<>>
    ELSE (IF self.n_slices_per_file > 1 \/ index % self.n_slices = 0
          THEN <<self.headers[index + 1]>> ELSE <<>>)
         \o TemporalFiles(self, index + 1)

\* read: if self.dimensions == 4: self._add_temporal_metadata(img, z_order)
AddTemporalMetadata ==
    /\ rpc = "temporal"
    /\ LET listed == IF geom.z_order < 0 THEN Reverse(TemporalFiles(ds, 0))
                     ELSE TemporalFiles(ds, 0)
       IN meta' = [meta EXCEPT !.ContentTimes = listed, !.Exposures = listed]
    /\ rpc' = "done"
    /\ UNCHANGED <<input, exc, ds, rindex, geom, dcm_array, pixel_value_dtype,
                   inverter>>
    /\ UNCHANGED batchVars
    /\ UNCHANGED decodeVars

-----------------------------------------------------------------------------
(* Specifications *)

InputSets(catalog) == UNION {[1..n -> catalog] : n \in 1..MaxFiles}

InitBuild(b, files) ==
    /\ builder = b
    /\ input = files
    /\ pc = IF b = "dicom" THEN "headers" ELSE b
    /\ pending = DOMAIN files
    /\ studies = <<>>
    /\ keys = <<>>
    /\ names = <<>>
    /\ idx = 1
    /\ result = <<>>
    /\ file_errors = <<>>
    /\ yielded = <<>>
    /\ consumed_files = {}
    /\ build_errors = <<>>
    /\ ds = NoDataset
    /\ rpc = "idle"
    /\ rindex = 1
    /\ geom = NoGeometry
    /\ dcm_array = NoArray
    /\ pixel_value_dtype = "none"
    /\ inverter = NoInverter
    /\ meta = NoMeta
    /\ exc = "none"

InitWith(b, files) ==
    /\ InitBuild(b, files)
    /\ e2e = NoE2E
    /\ cf = NoFloat
    /\ fds = NoFDS
    /\ conv = NoConv
    /\ mhd = NoMhd

NextBuild ==
    \/ BuilderRaisesUnconsumed
    \/ BuilderReturns

NextDicom ==
    \/ \E f \in DOMAIN input : ReadHeader(f)
    \/ SortHeaders
    \/ SortHeadersRaises
    \/ ValidateStudy
    \/ ValidateDone
    \/ ReadDataset
    \/ ReadDatasetRaises
    \/ NextBuild

NextOct ==
    \/ \E f \in DOMAIN input : OctFile(f)
    \/ \E f \in DOMAIN input : OctFileInvalid(f)
    \/ \E f \in DOMAIN input : OctFileRaises(f)
    \/ NextBuild

\* Files of mixed kinds handed to either builder.
DicomCatalog ==
    {Junk, Oct("e2e", "ok", <<TRUE>>)}
    \cup {Dcm(1, series, 0, sop, inst, tpi, 1) :
            series \in {1, 2}, sop \in {0, 1}, inst \in {0, 1, 2},
            tpi \in {0, MaxTime}}

OctCatalog ==
    {Junk, Dcm(1, 1, 0, 1, 1, 0, 1)}
    \cup {Oct(fmt, get, <<TRUE>>) :
            fmt \in {"fds", "fda"}, get \in {"ok", "caught", "uncaught"}}
    \cup {Oct("fds", "ok", <<FALSE>>)}
    \cup {Oct("e2e", "ok", vols) : vols \in BoolSeqs(MaxVolumes)}
    \cup {Oct("e2e", get, <<>>) : get \in {"caught", "uncaught"}}

Init ==
    \/ \E files \in InputSets(DicomCatalog) : InitWith("dicom", files)
    \/ \E files \in InputSets(OctCatalog) : InitWith("oct", files)

Next == NextDicom \/ NextOct

\* Either builder run by _build_files on a set of files of mixed kinds.
Spec == Init /\ [][Next]_vars

\* Headers that differ in every component of the group key.
GroupingCatalog ==
    {Junk, Dcm(1, 1, 0, 1, 0, 0, 1), Dcm(1, 1, 0, 1, 1, MaxTime + 1, 1)}
    \cup {Dcm(study, series, stack, sop, inst, 0, 1) :
            study \in {1, 2}, series \in {0, 1, 2}, stack \in {0, 1},
            sop \in {0, 1, 2}, inst \in {1}}

InitGrouping == \E files \in InputSets(GroupingCatalog) : InitWith("dicom", files)

\* image_builder_dicom on DICOM files with varied group keys.
SpecGrouping == InitGrouping /\ [][NextDicom]_vars

\* Headers that differ in TemporalPositionIndex and in the number of frames.
ValidateCatalog ==
    {Junk, Dcm(1, 1, 0, 1, 0, 0, 1)}
    \cup {Dcm(1, 1, 0, 1, inst, tpi, frames) :
            inst \in {1, 2}, tpi \in 0..MaxTime, frames \in 1..MaxFrames}
    \cup {Dcm(1, 2, 0, 1, 1, tpi, 1) : tpi \in 0..MaxTime}

InitValidate == \E files \in InputSets(ValidateCatalog) : InitWith("dicom", files)

\* image_builder_dicom on DICOM files that form 3D and 4D groups.
SpecValidate == InitValidate /\ [][NextDicom]_vars

\* read returns SimpleITKImage(image=img, name=self.name, consumed_files=...);
\* image_builder_dicom yields it and _build_files adds its consumed files.
ReadReturns ==
    /\ rpc = "done"
    /\ LET rec == [name |-> ds.name,
                   consumed_files |-> DatasetConsumedFiles(ds.headers),
                   image |-> [array |-> dcm_array, meta |-> meta,
                              isVector |-> samples_per_pixel(ds) > 1,
                              origin |-> geom.origin,
                              spacing |-> geom.spacing,
                              direction |-> direction_matrix(ds),
                              dimensions |-> dimensions(ds)]]
       IN /\ yielded' = Append(yielded, rec)
          /\ consumed_files' = consumed_files \cup rec.consumed_files
    /\ idx' = idx + 1
    /\ rpc' = "idle"
    /\ UNCHANGED <<builder, input, pc, pending, studies, keys, names, result,
                   file_errors, build_errors>>
    /\ UNCHANGED <<ds, rindex, geom, dcm_array, pixel_value_dtype, inverter,
                   meta, exc>>
    /\ UNCHANGED decodeVars

\* image_builder_dicom: except Exception as e: the error is recorded for
\* every file of the group.
ReadRaises ==
    /\ rpc = "raised"
    /\ file_errors' = AddErrors(file_errors, ds.headers, format_error(exc))
    /\ idx' = idx + 1
    /\ rpc' = "idle"
    /\ UNCHANGED <<builder, input, pc, pending, studies, keys, names, result,
                   yielded, consumed_files, build_errors>>
    /\ UNCHANGED <<ds, rindex, geom, dcm_array, pixel_value_dtype, inverter,
                   meta, exc>>
    /\ UNCHANGED decodeVars

Identity == <<<<1, 0, 0>>, <<0, 1, 0>>>>

\* A column direction turned round: the slice normal is (0, 0, -1).
Flipped == <<<<1, 0, 0>>, <<0, -1, 0>>>>

\* A group of single-frame files: InstanceNumbers p against the order of
\* supply, Z positions z (z < 0: no ImagePositionPatient).
SliceGroup(p, z, o, tpi) ==
    [i \in DOMAIN p |->
        [Dcm(1, 1, 0, 1, p[i], tpi, 1) EXCEPT
            !.pos = IF z[i] < 0 THEN <<>> ELSE <<0, 0, z[i]>>,
            !.orient = o]]

StoredValues(t) ==
    IF t = "uint16" THEN {0, 100, 40000} ELSE {-32768, -1}

PixelChoices ==
    UNION {{[dtype |-> t, raw |-> raw, slope |-> rs[1], intercept |-> rs[2]] :
              raw \in StoredValues(t),
              rs \in {<<1, 0>>, <<1024, 0>>, <<1, 1>>}} :
           t \in IntTypes}

\* A group of single-frame files that differ in the stored samples, their
\* type and the rescale tags.
PixelGroup(c, photo, wc) ==
    [i \in DOMAIN c |->
        [Dcm(1, 1, 0, 1, i, 0, 1) EXCEPT
            !.dtype = c[i].dtype, !.raw = c[i].raw,
            !.slope = c[i].slope, !.intercept = c[i].intercept,
            !.photo = photo, !.wc = wc, !.ww = <<400>>]]

\* One file with a PatientID and a StudyDate.
MetadataGroup(pid, sdate) ==
    <<[Dcm(1, 1, 0, 1, 1, 0, 1) EXCEPT !.pid = pid, !.sdate = sdate]>>

PatientIDs ==
    {EmptyLO, [len |-> 8, backslash |-> FALSE], [len |-> 8, backslash |-> TRUE],
     [len |-> 65, backslash |-> FALSE]}

StudyDates ==
    {EmptyDA}
    \cup {[len |-> 8, digits |-> TRUE, year |-> 2020, month |-> m, day |-> d] :
            m \in {2, 12, 13}, d \in {0, 29, 30, 31}}
    \cup {[len |-> 10, digits |-> FALSE, year |-> 2020, month |-> 1, day |-> 1],
          [len |-> 6, digits |-> TRUE, year |-> 2020, month |-> 1, day |-> 0]}

\* n_t time points of n_s single-frame files each, in the order of their
\* instance numbers; the slices of a time point lie at z = 0 .. n_s - 1,
\* ascending or descending.
TemporalGroup(n_t, n_s, descending) ==
    [i \in 1..(n_t * n_s) |->
        [Dcm(1, 1, 0, 1, i, n_t, 1) EXCEPT
            !.pos = <<0, 0, IF descending THEN n_s - 1 - ((i - 1) % n_s)
                            ELSE (i - 1) % n_s>>]]

\* Colour files (three samples per pixel) of one frame or of frames frames
\* each, without positions.
ColourGroup(n, frames, tpi) ==
    [i \in 1..n |->
        [Dcm(1, 1, 0, 1, i, tpi, frames) EXCEPT !.samples = 3, !.photo = "RGB"]]

\* One enhanced file: a PerFrameFunctionalGroupsSequence with a position
\* for each of its frames, with or without a PixelSpacing somewhere.
EnhancedGroup(frames, tpi, spacing) ==
    <<[Dcm(1, 1, 0, 1, 1, tpi, frames) EXCEPT
          !.fpos = [k \in 1..frames |-> <<0, 0, k>>], !.spacing = spacing]>>

\* A group of files with one or several frames.
FrameGroup(fr, tpi) ==
    [i \in DOMAIN fr |->
        [Dcm(1, 1, 0, 1, i, tpi, fr[i]) EXCEPT !.pos = <<0, 0, i>>]]

\* image_builder_dicom is about to call read() on the one dataset that
\* _find_valid_dicom_files returned for the files.
InitReadWith(files) ==
    /\ builder = "dicom"
    /\ input = files
    /\ pc = "read"
    /\ pending = {}
    /\ studies = <<>>
    /\ keys = <<>>
    /\ names = <<>>
    /\ idx = 1
    /\ LET group == ValidGroup(<<1, 0>>,
                        SortByInstance([i \in DOMAIN files |-> i]))
       IN /\ group.valid
          /\ result = <<group.dataset>>
          /\ ds = group.dataset
    /\ file_errors = <<>>
    /\ yielded = <<>>
    /\ consumed_files = {}
    /\ build_errors = <<>>
    /\ rpc = "order"
    /\ rindex = 1
    /\ geom = NoGeometry
    /\ dcm_array = NoArray
    /\ pixel_value_dtype = "none"
    /\ inverter = NoInverter
    /\ meta = NoMeta
    /\ exc = "none"
    /\ e2e = NoE2E
    /\ cf = NoFloat
    /\ fds = NoFDS
    /\ conv = NoConv
    /\ mhd = NoMhd

InitRead ==
    \/ \E n \in 1..MaxSlices :
          \E p \in Permutations(1..n),
             z \in [1..n -> -1..(IF n < 3 THEN n - 1 ELSE 2)],
             o \in {Identity, Flipped}, tpi \in {0, MaxTime} :
             InitReadWith(SliceGroup(p, z, o, tpi))
    \/ \E n \in 1..MaxPixelFiles :
          \E c \in [1..n -> PixelChoices],
             photo \in {"MONOCHROME1", "MONOCHROME2"},
             wc \in {<<>>, <<200>>, <<50, 200>>} :
             InitReadWith(PixelGroup(c, photo, wc))
    \/ \E n \in 1..MaxFiles :
          \E fr \in [1..n -> 1..MaxFrames], tpi \in {0, MaxTime} :
             InitReadWith(FrameGroup(fr, tpi))
    \/ \E pid \in PatientIDs, sdate \in StudyDates :
          InitReadWith(MetadataGroup(pid, sdate))
    \/ \E n_t \in 2..MaxTime, n_s \in 1..MaxSlices, descending \in BOOLEAN :
          InitReadWith(TemporalGroup(n_t, n_s, descending))
    \/ \E n \in 1..MaxFiles, frames \in 1..MaxFrames, tpi \in {0, MaxTime} :
          InitReadWith(ColourGroup(n, frames, tpi))
    \/ \E frames \in 1..MaxFrames, tpi \in {0, 1},
             spacing \in {<<>>, <<2, 3>>} :
          InitReadWith(EnhancedGroup(frames, tpi, spacing))

NextRead ==
    \/ DetermineSliceOrder
    \/ ReadWholeVolume
    \/ ReadSlice
    \/ ReadSliceRaises
    \/ ApplyPhotometric
    \/ AddOptionalMetadata
    \/ AddOptionalMetadataRaises
    \/ AddTemporalMetadata
    \/ ReadReturns
    \/ ReadRaises
    \/ NextBuild

\* One call of DicomDataset.read on a valid group, and how
\* image_builder_dicom and _build_files end after it.
SpecRead == InitRead /\ [][NextRead]_vars

-----------------------------------------------------------------------------
(* Claims about the batch *)

Returned == pc = "returned"

\* C1: when a builder run through _build_files ends, the consumed files and
\* the files with recorded errors are disjoint and together are exactly the
\* input files.
C1_ErrorMapComplete ==
    Returned =>
        /\ consumed_files \cap DOMAIN build_errors = {}
        /\ consumed_files \cup DOMAIN build_errors = DOMAIN input

HeadersDone == pc \in {"validate", "read", "returned"}

HeaderFails(f) == ~(HeaderDecodes(input[f]) /\ KeyReadable(input[f]))

IsGrouped(f) == \E k \in DOMAIN studies : f \in Range(studies[k])

\* C2: a failure to decode or process one file's header never aborts the
\* DICOM batch: image_builder_dicom ends only by normal completion or by
\* UnconsumedFilesException, the failing file has its error recorded and
\* every other file is grouped.
C2_HeaderFailureNeverAborts ==
    builder = "dicom" =>
        /\ pc # "crashed"
        /\ HeadersDone =>
              \A f \in DOMAIN input :
                 IF HeaderFails(f) THEN f \in DOMAIN file_errors
                 ELSE IsGrouped(f)

\* The group of key k has been through the validator's loop body.
Validated(k) ==
    \/ pc \in {"read", "returned"}
    \/ pc = "validate" /\ \E i \in 1..(idx - 1) : keys[i] = k

LastHeader(k) == input[studies[k][Len(studies[k])]]

DeclaredTime(k) == LastHeader(k).tpi

TotalFrames(k) == Len(studies[k]) * LastHeader(k).frames

DatasetsOf(k) == {i \in 1..Len(result) : result[i].headers = studies[k]}

DiffersError == format_error("Number of slices per time point differs")

Rejected(k) ==
    /\ DatasetsOf(k) = {}
    /\ \A f \in Range(studies[k]) :
          f \in DOMAIN file_errors /\ DiffersError \in Range(file_errors[f])

AcceptedAsGrid(k) ==
    /\ DatasetsOf(k) # {}
    /\ TotalFrames(k) % DeclaredTime(k) = 0
    /\ \A i \in DatasetsOf(k) :
          /\ result[i].n_time = DeclaredTime(k)
          /\ result[i].n_slices * DeclaredTime(k) = TotalFrames(k)

\* C3: every group that declares n_time >= 1 is either accepted with
\* total_frames % n_time = 0 and n_slices = total_frames / n_time, or no
\* dataset is emitted for it and every member file carries the error
\* "Number of slices per time point differs".
C3_AcceptedGridOrRejected ==
    \A k \in DOMAIN studies :
        (Validated(k) /\ DeclaredTime(k) >= 1)
            => (AcceptedAsGrid(k) \/ Rejected(k))

\* C3 witness: the validator has accepted one 4D-declaring group and rejected
\* another.
C3_Witness ==
    /\ \E k \in DOMAIN studies :
          Validated(k) /\ DeclaredTime(k) >= 1 /\ AcceptedAsGrid(k)
    /\ \E k \in DOMAIN studies :
          Validated(k) /\ DeclaredTime(k) >= 1 /\ Rejected(k)

\* C4: a group that declares n_time >= 1 is rejected if and only if
\* total_frames % n_time # 0, with total_frames the number of files times
\* the number of frames per file.
C4_RejectedIffNotDivisible ==
    \A k \in DOMAIN studies :
        (Validated(k) /\ DeclaredTime(k) >= 1)
            => (Rejected(k) <=> TotalFrames(k) % DeclaredTime(k) # 0)

\* The group key as the claim states it.
ClaimedKey(h) ==
    <<h.study, IF h.stack # 0 THEN h.stack ELSE h.series, h.sop>>

\* The places <<key, position>> at which file f sits in studies.
GroupsOf(f) ==
    UNION {{<<k, i>> : i \in {j \in 1..Len(studies[k]) : studies[k][j] = f}} :
             k \in DOMAIN studies}

SameGroup(f, g) ==
    \E k \in DOMAIN studies : f \in Range(studies[k]) /\ g \in Range(studies[k])

\* _get_headers_by_study has visited every file and validation has not begun:
\* file_errors holds the errors of the header pass only.
HeaderLoopDone ==
    \/ pc = "headers" /\ pending = {}
    \/ pc = "validate" /\ idx = 1

\* A file whose header was decoded and keyed without a recorded error.
Decoded(f) == f \notin DOMAIN file_errors

\* C5: after _get_headers_by_study every successfully decoded file is in
\* exactly one group, and two decoded files share a group if and only if
\* they have the same (StudyInstanceUID, StackID if present else
\* SeriesInstanceUID, SOPClassUID).
C5_GroupedByKey ==
    HeaderLoopDone =>
        /\ \A f \in DOMAIN input : Decoded(f) => Cardinality(GroupsOf(f)) = 1
        /\ \A f, g \in DOMAIN input :
              (Decoded(f) /\ Decoded(g)) =>
                 (SameGroup(f, g) <=> ClaimedKey(input[f]) = ClaimedKey(input[g]))

\* C5 witness: two decoded files that share a SeriesInstanceUID but differ in
\* SOPClassUID have been grouped.
C5_Witness ==
    /\ HeaderLoopDone
    /\ \E f, g \in DOMAIN input :
          /\ Decoded(f) /\ Decoded(g)
          /\ input[f].series = input[g].series
          /\ input[f].study = input[g].study
          /\ input[f].stack = 0 /\ input[g].stack = 0
          /\ input[f].sop # input[g].sop
          /\ ~SameGroup(f, g)

Disjoint(a, b) == a \cap b = {}

\* C6, as claimed: the consumed_files sets of any two distinct emitted
\* records are disjoint, for DICOM groups and OCT volumes alike.
C6_ConsumedDisjoint ==
    \A i, j \in 1..Len(yielded) :
        i # j => Disjoint(yielded[i].consumed_files, yielded[j].consumed_files)

\* C6, amended: two distinct emitted records have disjoint consumed_files
\* unless both are OCT volumes decoded from the same container file, which
\* both claim exactly that file.
C6_ConsumedDisjointOrSameContainer ==
    \A i, j \in 1..Len(yielded) :
        i # j =>
            \/ Disjoint(yielded[i].consumed_files, yielded[j].consumed_files)
            \/ /\ builder = "oct"
               /\ yielded[i].consumed_files = yielded[j].consumed_files
               /\ Cardinality(yielded[i].consumed_files) = 1

\* C6 witness: the DICOM builder has emitted two records.
C6_Witness == builder = "dicom" /\ Len(yielded) >= 2

-----------------------------------------------------------------------------
(* Claims about DicomDataset.read *)

HeaderAt(i) == input[ds.headers[i]]

\* _determine_slice_order has returned.
SliceOrderKnown == rpc \notin {"idle", "order"}

\* The loop of _create_itk_from_dcm has ended without raising.
Assembled == rpc \in {"photometric", "metadata", "temporal", "done"}

\* A 3D group of single-frame files that all carry a position and differ in
\* Z only.
SingleFrameStack ==
    /\ dimensions(ds) = 3
    /\ ds.n_slices_per_file = 1
    /\ \A i \in 1..Len(ds.headers) :
          /\ HeaderAt(i).frames = 1
          /\ HeaderAt(i).fpos = <<>>
          /\ HeaderAt(i).pos # <<>>
          /\ HeaderAt(i).pos[1] = HeaderAt(1).pos[1]
          /\ HeaderAt(i).pos[2] = HeaderAt(1).pos[2]

IdentityOrientation == ref_header(ds).orient \in {<<>>, Identity}

ZAt(i) == HeaderAt(i).pos[3]

ZIncreasing ==
    /\ Len(ds.headers) >= 2
    /\ \A i \in 1..(Len(ds.headers) - 1) : ZAt(i) < ZAt(i + 1)

ZDecreasing ==
    /\ Len(ds.headers) >= 2
    /\ \A i \in 1..(Len(ds.headers) - 1) : ZAt(i) > ZAt(i + 1)

FilesBelow(f) == {g \in Range(ds.headers) : input[g].pos[3] < input[f].pos[3]}

RescaleIdentity ==
    \A i \in 1..Len(ds.headers) :
        HeaderAt(i).slope = 1 /\ HeaderAt(i).intercept = 0

Written(array) == {i \in 1..Len(array.planes) : array.planes[i].file # 0}

\* slope x raw + intercept of a file, evaluated in float32
RescaledSample(h) == RoundF32(RoundF32(h.slope * h.raw) + h.intercept)

\* C8: rescaling is decided once for the group: when every file has slope 1
\* and intercept 0 the assembled samples equal the stored samples and the
\* element type is an integer type; otherwise the element type is float and
\* every sample equals its own file's slope x raw + intercept.
C8_RescaleDecidedPerGroup ==
    rpc = "photometric" =>
        IF RescaleIdentity
        THEN /\ dcm_array.dtype \in IntTypes
             /\ \A i \in Written(dcm_array) :
                   dcm_array.planes[i].v = input[dcm_array.planes[i].file].raw
        ELSE /\ dcm_array.dtype = "float32"
             /\ \A i \in Written(dcm_array) :
                   dcm_array.planes[i].v =
                       RescaledSample(input[dcm_array.planes[i].file])

\* The MONOCHROME1 inversion has been applied to the buffer.
Inverted == inverter # NoInverter /\ rpc \in {"metadata", "temporal", "done"}

\* The sample of a place of the buffer before the inversion.
SampleBefore(p) ==
    IF p.file = 0 THEN 0
    ELSE read_pixel_values(p.file, pixel_values_need_scaling(ds),
                           pixel_value_dtype).planes[1].v

BufferBefore ==
    {SampleBefore(dcm_array.planes[i]) : i \in 1..Len(dcm_array.planes)}

InType(t, v) ==
    IF t = "uint16" THEN v \in 0..65535
    ELSE IF t = "int16" THEN v \in -32768..32767
    ELSE TRUE

\* Equality of two values in type t: modulo 2^16 in the integer types.
SameIn(t, a, b) == IF t \in IntTypes THEN (a - b) % 65536 = 0 ELSE a = b

InvertLaw ==
    /\ InType(inverter.dtype, inverter.offset)
    /\ SameIn(inverter.dtype, inverter.offset,
              Min(BufferBefore) + Max(BufferBefore))
    /\ \A i \in 1..Len(dcm_array.planes) :
          LET before == SampleBefore(dcm_array.planes[i])
              after == dcm_array.planes[i].v
          IN /\ InType(inverter.dtype, after)
             /\ SameIn(inverter.dtype, after, inverter.offset - before)
             /\ invert(inverter, after) = before

\* C9, as claimed: for any buffer, invert maps every sample v to offset - v
\* with offset = min + max, and inverting twice returns the original buffer
\* exactly, also when min + max wraps around in an integer type.
C9_InvertIsInvolution == Inverted => InvertLaw

\* C9, amended: for any buffer of a fixed-width integer type, invert maps
\* every sample v to offset - v with offset = min + max, both modulo the
\* width of the type, and inverting twice returns the original buffer exactly.
C9_IntegerInvertIsInvolution ==
    (Inverted /\ inverter.dtype \in IntTypes) => InvertLaw

\* C9 witness: an int16 buffer of two different samples whose min + max is
\* below the lowest int16 has been inverted.
C9_Witness ==
    /\ Inverted
    /\ inverter.dtype = "int16"
    /\ Cardinality(BufferBefore) >= 2
    /\ Min(BufferBefore) + Max(BufferBefore) < -32768

\* read has written the optional metadata.
MetadataWritten == rpc \in {"temporal", "done"}

\* offset - center; for a float buffer, evaluated in float32
CenterExpected(center) ==
    IF inverter.dtype = "float32" THEN RoundF32(inverter.offset - center)
    ELSE inverter.offset - center

\* C10: when the MONOCHROME1 inversion is applied, the WindowCenter written
\* is offset - center, element by element, with the offset used for the
\* pixels, and WindowWidth is written unchanged; without inversion both are
\* written unchanged.
C10_WindowCenterInverted ==
    MetadataWritten =>
        /\ meta.WindowWidth = ref_header(ds).ww
        /\ meta.WindowCenter =
              IF inverter # NoInverter
              THEN [i \in 1..Len(ref_header(ds).wc) |->
                       CenterExpected(ref_header(ds).wc[i])]
              ELSE ref_header(ds).wc


-----------------------------------------------------------------------------
(* Validation of the optional metadata *)

\* The read of the group has ended and image_builder_dicom has handled its
\* outcome.
ReadEnded == rpc = "idle" /\ idx > 1

GroupHasError ==
    \E i \in 1..Len(ds.headers) : ds.headers[i] \in DOMAIN file_errors

GroupEmitted == \E i \in 1..Len(yielded) : yielded[i].name = ds.name

\* C11: when PatientID or StudyDate of the reference header fails its pattern
\* or its cast, the group is still emitted, without that field only, and no
\* file of the group gets an error.
C11_InvalidFieldOnlyLeftOut ==
    (ReadEnded /\ OptionalMetadataRaises(ds)) =>
        /\ ~GroupHasError
        /\ \E i \in 1..Len(yielded) :
              /\ yielded[i].name = ds.name
              /\ yielded[i].image.meta.PatientID =
                    (IF PatientIDRaises(ref_header(ds).pid) THEN EmptyLO
                     ELSE ref_header(ds).pid)
              /\ yielded[i].image.meta.StudyDate =
                    (IF StudyDateRaises(ref_header(ds).sdate) THEN EmptyDA
                     ELSE ref_header(ds).sdate)


-----------------------------------------------------------------------------
(* E2E.read_custom_float *)

Byte == 0..255

\* bin(b)[2:].zfill(8)[::-1]: the eight bits of a byte, lowest first.
BitsLowFirst(b) == [i \in 1..8 |-> (b \div 2^(i - 1)) % 2]

\* A reading of a bit string that takes its first character as the lowest bit.
IntLowFirst(bits) ==
    LET RECURSIVE sum(_)
        sum(i) == IF i > Len(bits) THEN 0 ELSE bits[i] * 2^(i - 1) + sum(i + 1)
    IN sum(1)

\* int(bits, 2): the first character is the highest bit.
IntBase2(bits) ==
    LET RECURSIVE sum(_)
        sum(i) == IF i > Len(bits) THEN 0
                  ELSE bits[i] * 2^(Len(bits) - i) + sum(i + 1)
    IN sum(1)

\* read_custom_float; the float returned is num * 2^exp (the arithmetic is
\* exact in binary64: num < 2^11 and -73 <= exp <= -10).
read_custom_float(bytes) ==
    LET bits == BitsLowFirst(bytes[1]) \o BitsLowFirst(bytes[2])
        mantissa == SubSeq(bits, 1, 10)
        exponent == SubSeq(bits, 11, 16)
        mantissa_sum == [num |-> 1024 + IntBase2(mantissa), exp |-> -10]
        exponent_sum == IntBase2(Reverse(exponent)) - 63
    IN [num |-> mantissa_sum.num, exp |-> mantissa_sum.exp + exponent_sum]

\* One call of read_custom_float on two bytes.
ReadCustomFloat ==
    /\ cf.at = "called"
    /\ cf' = [cf EXCEPT !.at = "returned",
                        !.value = read_custom_float(cf.bytes)]
    /\ UNCHANGED input
    /\ UNCHANGED batchVars
    /\ UNCHANGED readVars
    /\ UNCHANGED <<e2e, fds, conv, mhd>>

InitFloat ==
    \E b0 \in Byte, b1 \in Byte :
        /\ InitBuild("oct", <<>>)
        /\ e2e = NoE2E
        /\ cf = [NoFloat EXCEPT !.at = "called", !.bytes = <<b0, b1>>]
        /\ fds = NoFDS
        /\ conv = NoConv
        /\ mhd = NoMhd

NextFloat == ReadCustomFloat

SpecFloat == InitFloat /\ [][NextFloat]_vars

-----------------------------------------------------------------------------
(* E2E.read_oct_volume, E2E.read_fundus_image and the e2e branch of
   image_builder_oct *)

\* An MDbData chunk: whole is FALSE when fewer than 60 bytes are left for its
\* header; type 11 is laterality data (byte is its laterality field, parses
\* is FALSE when lat_structure.parse raises), type 1073741824 is image data
\* (ind 1 is OCT data of the volume named volume, ind 0 is fundus data;
\* slice_id is the signed slice_id field of the chunk header).
LateralityChunk(byte, parses) ==
    [whole |-> TRUE, type |-> 11, byte |-> byte, parses |-> parses, ind |-> 0,
     volume |-> 0, slice_id |-> 0]

ImageChunk(ind, volume) ==
    [whole |-> TRUE, type |-> 1073741824, byte |-> 0, parses |-> TRUE,
     ind |-> ind, volume |-> volume, slice_id |-> 2]

\* self.laterality after the laterality branch has run on a chunk.
LateralityAfter(laterality, chunk) ==
    IF chunk.type # 11 THEN laterality
    ELSE IF ~chunk.parses THEN "None"
    ELSE IF chunk.byte = 82 THEN "R"
    ELSE IF chunk.byte = 76 THEN "L"
    ELSE laterality

\* The names of the volumes with OCT data among the chunks.
VolumeNames(chunks) ==
    {chunks[k].volume : k \in {j \in 1..Len(chunks) :
        chunks[j].type = 1073741824 /\ chunks[j].ind = 1}}

\* read_oct_volume, first pass: one MDbData chunk.
ReadChunk ==
    /\ e2e.at = "scan"
    /\ e2e.i <= Len(e2e.chunks)
    /\ e2e.chunks[e2e.i].whole
    /\ e2e' = [e2e EXCEPT
          !.i = @ + 1,
          !.laterality = LateralityAfter(@, e2e.chunks[e2e.i]),
          !.chunk_stack =
              IF e2e.chunks[e2e.i].type = 1073741824
                 /\ e2e.chunks[e2e.i].ind = 1
              THEN Append(@, e2e.i) ELSE @]
    /\ UNCHANGED <<input, cf, fds, conv, mhd>>
    /\ UNCHANGED batchVars
    /\ UNCHANGED readVars

\* chunk_structure.parse raises StreamError on a cut header.
ReadChunkRaises ==
    /\ e2e.at = "scan"
    /\ e2e.i <= Len(e2e.chunks)
    /\ ~e2e.chunks[e2e.i].whole
    /\ e2e' = [e2e EXCEPT !.at = "raised", !.exc = "StreamError"]
    /\ UNCHANGED <<input, cf, fds, conv, mhd>>
    /\ UNCHANGED batchVars
    /\ UNCHANGED readVars

\* read_oct_volume, between the passes: volume_array_dict gets a list of
\* [0] * (number of OCT chunks of the volume) for each volume name.
AllocateVolumes ==
    /\ e2e.at = "scan"
    /\ e2e.i > Len(e2e.chunks)
    /\ e2e' = [e2e EXCEPT
          !.at = "fill",
          !.j = 1,
          !.volume_array_dict =
              [v \in VolumeNames(e2e.chunks) |->
                  [n \in 1..Cardinality({k \in Range(e2e.chunk_stack) :
                                            e2e.chunks[k].volume = v}) |-> 0]]]
    /\ UNCHANGED <<input, cf, fds, conv, mhd>>
    /\ UNCHANGED batchVars
    /\ UNCHANGED readVars

\* read_oct_volume, second pass: the image of one OCT chunk is stored at list
\* index int(chunk.slice_id / 2) - 1 of its volume; a negative index counts
\* from the end of the list, an index outside the list raises IndexError.
\* A slot holds 0 or the place of the chunk whose image it holds.
FillSlot ==
    /\ e2e.at = "fill"
    /\ e2e.j <= Len(e2e.chunk_stack)
    /\ LET chunk == e2e.chunks[e2e.chunk_stack[e2e.j]]
           half == IF chunk.slice_id >= 0 THEN chunk.slice_id \div 2
                   ELSE -((-chunk.slice_id) \div 2)
           index == half - 1
           len == Len(e2e.volume_array_dict[chunk.volume])
       IN IF index >= len \/ index < -len
          THEN e2e' = [e2e EXCEPT !.at = "raised", !.exc = "IndexError"]
          ELSE e2e' = [e2e EXCEPT
                  !.j = @ + 1,
                  !.volume_array_dict[chunk.volume][(index % len) + 1] =
                      e2e.chunk_stack[e2e.j]]
    /\ UNCHANGED <<input, cf, fds, conv, mhd>>
    /\ UNCHANGED batchVars
    /\ UNCHANGED readVars

\* read_oct_volume, after the passes: one OCTVolumeWithMetaData per volume
\* name (by ascending name here), each with laterality=self.laterality.
ReadOctVolumeReturns ==
    /\ e2e.at = "fill"
    /\ e2e.j > Len(e2e.chunk_stack)
    /\ LET names_ == VolumeNames(e2e.chunks)
       IN /\ names_ = {} \/ e2e.laterality # "unset"
          /\ e2e' = [e2e EXCEPT
                !.at = "fundus",
                !.oct_volumes =
                    [k \in 1..Cardinality(names_) |->
                        [patient_id |->
                            CHOOSE v \in names_ :
                                Cardinality({u \in names_ : u < v}) = k - 1,
                         volume |->
                            e2e.volume_array_dict[CHOOSE v \in names_ :
                                Cardinality({u \in names_ : u < v}) = k - 1],
                         laterality |-> e2e.laterality]]]
    /\ UNCHANGED <<input, cf, fds, conv, mhd>>
    /\ UNCHANGED batchVars
    /\ UNCHANGED readVars

\* laterality=self.laterality raises AttributeError: no chunk has set the
\* attribute, and __init__ does not.
ReadOctVolumeRaises ==
    /\ e2e.at = "fill"
    /\ e2e.j > Len(e2e.chunk_stack)
    /\ VolumeNames(e2e.chunks) # {}
    /\ e2e.laterality = "unset"
    /\ e2e' = [e2e EXCEPT !.at = "raised", !.exc = "AttributeError"]
    /\ UNCHANGED <<input, cf, fds, conv, mhd>>
    /\ UNCHANGED batchVars
    /\ UNCHANGED readVars

RECURSIVE LateralityAfterAll(_, _)
LateralityAfterAll(laterality, chunks) ==
    IF chunks = <<>> THEN laterality
    ELSE LateralityAfterAll(LateralityAfter(laterality, Head(chunks)),
                            Tail(chunks))

\* read_fundus_image, called after read_oct_volume returned: the same chunks
\* are traversed again, and each fundus image is built with
\* laterality=self.laterality.
ReadFundusImage ==
    /\ e2e.at = "fundus"
    /\ LET laterality == LateralityAfterAll(e2e.laterality, e2e.chunks)
           fundus == \E k \in 1..Len(e2e.chunks) :
                        /\ e2e.chunks[k].type = 1073741824
                        /\ e2e.chunks[k].ind = 0
       IN IF fundus /\ laterality = "unset"
          THEN e2e' = [e2e EXCEPT !.at = "raised", !.exc = "AttributeError"]
          ELSE e2e' = [e2e EXCEPT !.at = "returned",
                                  !.laterality = laterality]
    /\ UNCHANGED <<input, cf, fds, conv, mhd>>
    /\ UNCHANGED batchVars
    /\ UNCHANGED readVars

\* LATERALITY_TO_EYE_CHOICE, a defaultdict
LATERALITY_TO_EYE_CHOICE(laterality) ==
    IF laterality = "L" THEN "OS" ELSE IF laterality = "R" THEN "OD" ELSE "U"

\* image_builder_oct: _get_image returned for the e2e file and
\* _create_itk_images yields one image per volume.  np.array(volume) of a
\* list that still holds a 0 next to 2D images raises ValueError, which is
\* recorded for the file, or (older numpy) gives an object array that
\* SimpleITK rejects with TypeError, which leaves the builder.
E2EFileYields ==
    /\ pc = "oct"
    /\ e2e.at = "returned"
    /\ \E f \in pending :
          LET n == Len(e2e.oct_volumes)
              good == CHOOSE g \in 0..n :
                        /\ \A k \in 1..g :
                              0 \notin Range(e2e.oct_volumes[k].volume)
                        /\ g < n =>
                              0 \in Range(e2e.oct_volumes[g + 1].volume)
          IN /\ yielded' = yielded \o
                   [k \in 1..good |->
                       [name |-> <<f, 0>>, consumed_files |-> {f},
                        eye_choice |-> LATERALITY_TO_EYE_CHOICE(
                                           e2e.oct_volumes[k].laterality)]]
             /\ consumed_files' = IF good > 0
                                  THEN consumed_files \cup {f}
                                  ELSE consumed_files
             /\ \/ /\ good = n
                   /\ pending' = pending \ {f}
                   /\ e2e' = [e2e EXCEPT !.at = "done"]
                   /\ UNCHANGED <<pc, file_errors>>
                \/ /\ good < n
                   /\ pending' = pending \ {f}
                   /\ file_errors' = AddError(file_errors, f, oct_format_error(
                        "Not a valid OCT file (supported formats: .fds,.fda,.e2e)"))
                   /\ e2e' = [e2e EXCEPT !.at = "done", !.exc = "ValueError"]
                   /\ UNCHANGED pc
                \/ /\ good < n
                   /\ pc' = "crashed"
                   /\ e2e' = [e2e EXCEPT !.at = "done", !.exc = "TypeError"]
                   /\ UNCHANGED <<pending, file_errors>>
    /\ UNCHANGED <<builder, input, studies, keys, names, idx, result,
                   build_errors, cf, fds, conv, mhd>>
    /\ UNCHANGED readVars

\* image_builder_oct: _get_image raised; StreamError and IndexError are in
\* the except clause,
\* AttributeError is not and leaves the builder.
E2EFileRaises ==
    /\ pc = "oct"
    /\ e2e.at = "raised"
    /\ \E f \in pending :
          IF e2e.exc \in {"StreamError", "IndexError"}
          THEN /\ pending' = pending \ {f}
               /\ file_errors' = AddError(file_errors, f, oct_format_error(
                    "Not a valid OCT file (supported formats: .fds,.fda,.e2e)"))
               /\ pc' = pc
          ELSE /\ pc' = "crashed"
               /\ UNCHANGED <<pending, file_errors>>
    /\ e2e' = [e2e EXCEPT !.at = "done"]
    /\ UNCHANGED <<builder, input, studies, keys, names, idx, result,
                   yielded, consumed_files, build_errors, cf, fds, conv, mhd>>
    /\ UNCHANGED readVars

\* The chunks of the files of the model; only the last header can be cut.
Chunks ==
    {LateralityChunk(byte, parses) : byte \in {82, 76, 0}, parses \in {TRUE}}
    \cup {LateralityChunk(0, FALSE)}
    \cup {ImageChunk(1, v) : v \in 1..MaxVolumes}
    \cup {ImageChunk(0, 0)}

\* A file of chunks of any kind, or a file of a laterality chunk and OCT
\* chunks with any slice_id.
InitE2E ==
    \E n \in 0..MaxChunks :
        \/ \E chunks \in [1..n -> Chunks], cut \in BOOLEAN :
            /\ InitBuild("oct", <<Oct("e2e", "ok", <<>>)>>)
            /\ e2e = [NoE2E EXCEPT
                        !.at = "scan",
                        !.chunks =
                            IF cut /\ n > 0
                            THEN [chunks EXCEPT ![n].whole = FALSE]
                            ELSE chunks]
            /\ cf = NoFloat
            /\ fds = NoFDS
            /\ conv = NoConv
            /\ mhd = NoMhd
        \/ \E volume \in [1..n -> 1..MaxVolumes],
              slice_id \in [1..n -> 0..MaxSliceId] :
            /\ InitBuild("oct", <<Oct("e2e", "ok", <<>>)>>)
            /\ e2e = [NoE2E EXCEPT
                        !.at = "scan",
                        !.chunks = <<LateralityChunk(82, TRUE)>> \o
                            [k \in 1..n |->
                                [ImageChunk(1, volume[k]) EXCEPT
                                    !.slice_id = slice_id[k]]]]
            /\ cf = NoFloat
            /\ fds = NoFDS
            /\ conv = NoConv
            /\ mhd = NoMhd

NextE2E ==
    \/ ReadChunk
    \/ ReadChunkRaises
    \/ AllocateVolumes
    \/ FillSlot
    \/ ReadOctVolumeReturns
    \/ ReadOctVolumeRaises
    \/ ReadFundusImage
    \/ E2EFileYields
    \/ E2EFileRaises
    \/ NextBuild

SpecE2E == InitE2E /\ [][NextE2E]_vars

-----------------------------------------------------------------------------
(* FDS.get_list_of_file_chunks and the fds branch of image_builder_oct *)

\* b"@PARAM_SCAN_04", the chunk _extract_slice_size looks up.
PARAM_SCAN_04 == <<64, 80, 65, 82, 65, 77, 95, 83, 67, 65, 78, 95, 48, 52>>

\* np.frombuffer(f.read(4), dtype=np.uint32)[0] read in big-endian order.
Uint32BigEndian(raw) ==
    raw[4] + 256 * raw[3] + 65536 * raw[2] + 16777216 * raw[1]

\* np.frombuffer(f.read(4), dtype=np.uint32)[0] on a little-endian machine.
Uint32(raw) ==
    raw[1] + 256 * raw[2] + 65536 * raw[3] + 16777216 * raw[4]

\* The bytes of one chunk as they lie in a file: name length, name, length
\* of the body in four bytes, body.
FdsChunk(name, size) ==
    <<Len(name)>> \o name
    \o <<size % 256, (size \div 256) % 256, (size \div 65536) % 256,
         size \div 16777216>>
    \o [k \in 1..size |-> 1]

\* The bytes of a file: the 15 bytes "FOCT", "FDS", version_info_1 and
\* version_info_2, the chunks, a 0 if the file is terminated, the trailing
\* bytes, with the last cut bytes of all this missing.
FdsFile(layout) ==
    LET RECURSIVE Body(_)
        Body(k) == IF k > Len(layout.chunks) THEN <<>>
                   ELSE FdsChunk(layout.chunks[k].name, layout.chunks[k].size)
                        \o Body(k + 1)
        whole == <<70, 79, 67, 84, 70, 68, 83, 0, 0, 0, 0, 0, 0, 0, 0>>
                 \o Body(1)
                 \o (IF layout.terminated THEN <<0>> ELSE <<>>)
                 \o layout.trailing
    IN SubSeq(whole, 1, Len(whole) - layout.cut)

\* A read that gives n bytes always, zeros where the file has ended.
FileReadPadded(bytes, pos, n) ==
    [k \in 1..n |-> IF pos + k <= Len(bytes) THEN bytes[pos + k] ELSE 0]

\* f.read(n) at file position pos: the bytes that are left when fewer than
\* n are left.
FileRead(bytes, pos, n) ==
    SubSeq(bytes, pos + 1, IF pos + n < Len(bytes) THEN pos + n ELSE Len(bytes))

\* get_list_of_file_chunks: raw = f.read(15); self.header.parse(raw) raises
\* StreamError when the file has fewer than 15 bytes.
SkipHeader ==
    /\ fds.at = "header"
    /\ IF Len(fds.bytes) < 15
       THEN fds' = [fds EXCEPT !.at = "raised", !.exc = "StreamError"]
       ELSE fds' = [fds EXCEPT !.at = "loop", !.pos = 15]
    /\ UNCHANGED <<input, e2e, cf, conv, mhd>>
    /\ UNCHANGED batchVars
    /\ UNCHANGED readVars

\* get_list_of_file_chunks: one iteration of "while not eof".  f.read(n)
\* returns the bytes that are left when fewer than n are left; [0] of an
\* empty array raises IndexError, np.frombuffer of one to three bytes as
\* uint32 raises ValueError; f.seek may go past the end of the file.
ListChunk ==
    /\ fds.at = "loop"
    /\ LET read(pos, n) == FileRead(fds.bytes, pos, n)
           size_raw == read(fds.pos, 1)
           chunk_name_size == size_raw[1]
           chunk_name == read(fds.pos + 1, chunk_name_size)
           raw == read(fds.pos + 1 + Len(chunk_name), 4)
           chunk_size == Uint32(raw)
           chunk_location == fds.pos + 1 + Len(chunk_name) + 4
       IN IF size_raw = <<>>
          THEN fds' = [fds EXCEPT !.at = "raised", !.exc = "IndexError"]
          ELSE IF chunk_name_size = 0
          THEN fds' = [fds EXCEPT !.at = "returned", !.pos = @ + 1]
          ELSE IF raw = <<>>
          THEN fds' = [fds EXCEPT !.at = "raised", !.exc = "IndexError"]
          ELSE IF Len(raw) < 4
          THEN fds' = [fds EXCEPT !.at = "raised", !.exc = "ValueError"]
          ELSE fds' = [fds EXCEPT
                  !.pos = chunk_location + chunk_size,
                  !.chunk_dict =
                      {e \in @ : e.name # chunk_name}
                      \cup {[name |-> chunk_name,
                             location |-> chunk_location,
                             size |-> chunk_size]}]
    /\ UNCHANGED <<input, e2e, cf, conv, mhd>>
    /\ UNCHANGED batchVars
    /\ UNCHANGED readVars

\* image_builder_oct for the fds file: StreamError, IndexError and ValueError
\* of FDS(file) are recorded for the file.  After the chunk list
\* _extract_slice_size looks up b"@PARAM_SCAN_04": KeyError leaves the builder
\* when there is no such chunk.  With it, the file of the model still has no
\* b"@IMG_SCAN_03" chunk of a 22-byte header, so that the parse of the slice
\* size raises StreamError or read_oct_volume raises ValueError: recorded.
FDSFileEnds ==
    /\ pc = "oct"
    /\ fds.at \in {"raised", "returned"}
    /\ \E f \in pending :
          IF fds.at = "returned"
             /\ PARAM_SCAN_04 \notin {e.name : e \in fds.chunk_dict}
          THEN /\ pc' = "crashed"
               /\ fds' = [fds EXCEPT !.at = "done", !.exc = "KeyError"]
               /\ UNCHANGED <<pending, file_errors>>
          ELSE /\ pending' = pending \ {f}
               /\ file_errors' = AddError(file_errors, f, oct_format_error(
                    "Not a valid OCT file (supported formats: .fds,.fda,.e2e)"))
               /\ fds' = [fds EXCEPT
                            !.at = "done",
                            !.exc = IF fds.at = "raised" THEN @
                                    ELSE "ValueError"]
               /\ pc' = pc
    /\ UNCHANGED <<builder, input, studies, keys, names, idx, result,
                   yielded, consumed_files, build_errors, e2e, cf, conv, mhd>>
    /\ UNCHANGED readVars

\* One fds file: up to MaxFdsChunks chunks with names of 1, 2 and 14 bytes
\* and bodies of 0 to 2 bytes, with or without the terminating 0, with or
\* without bytes that look like a chunk after it, and with up to MaxCut
\* bytes missing at the end.  The layout is kept with the file.
InitFDS ==
    \E n \in 0..MaxFdsChunks :
        \E chunks \in [1..n -> {[name |-> <<1>>, size |-> 0],
                                [name |-> <<1>>, size |-> 1],
                                [name |-> <<2, 1>>, size |-> 2],
                                [name |-> PARAM_SCAN_04, size |-> 1]}],
           terminated \in BOOLEAN,
           trailing \in {<<>>, FdsChunk(<<3>>, 1)},
           cut \in 0..MaxCut :
            LET layout == [chunks |-> chunks,
                           terminated |-> terminated,
                           trailing |-> trailing,
                           cut |-> cut]
            IN /\ InitBuild("oct",
                     <<[layout |-> layout] @@ Oct("fds", "ok", <<>>)>>)
               /\ e2e = NoE2E
               /\ cf = NoFloat
               /\ fds = [NoFDS EXCEPT !.at = "header",
                                      !.bytes = FdsFile(layout)]
               /\ conv = NoConv
               /\ mhd = NoMhd

NextFDS ==
    \/ SkipHeader
    \/ ListChunk
    \/ FDSFileEnds
    \/ BuilderRaisesUnconsumed

SpecFDS == InitFDS /\ [][NextFDS]_vars

\* The loop is left to run: a reader that can take a step takes it.
SpecFDSLive == SpecFDS /\ WF_vars(NextFDS)

-----------------------------------------------------------------------------
(* image_builder_mhd *)

\* One iteration of "for file in files".  The first except clause for
\* ValidationError around load_sitk_image records its error and does not
\* continue: the statements after the try run with simple_itk_image as the
\* iterations before left it, unbound (UnboundLocalError leaves the builder)
\* or the image of an earlier file.
MhdFile ==
    /\ pc = "mhd"
    /\ \E f \in pending :
          LET file == input[f]
              consumed == {f} \cup (IF file.dep # 0 THEN {file.dep} ELSE {})
              error(message) ==
                  AddError(file_errors, f, mhd_format_error(message))
              image(of) == [name |-> <<f, 0>>, consumed_files |-> consumed,
                            image |-> of]
          IN IF file.header \notin {"mha", "mhd"} \/ file.load = "RuntimeError"
             THEN /\ file_errors' = error(
                        CASE file.header = "invalid" ->
                               <<"Could not validate or parse ITK header. ",
                                 "parse_mh_header">>
                          [] file.header = "unsafe" -> <<"detect_mhd_file">>
                          [] file.header = "other" -> <<"Not an ITK file">>
                          [] OTHER -> <<"SimpleITK could not open file.">>)
                  /\ pending' = pending \ {f}
                  /\ UNCHANGED <<pc, yielded, consumed_files, mhd>>
             ELSE IF file.load = "ok"
             THEN /\ mhd' = [mhd EXCEPT !.simple_itk_image = f]
                  /\ yielded' = Append(yielded, image(f))
                  /\ consumed_files' = consumed_files \cup consumed
                  /\ pending' = pending \ {f}
                  /\ UNCHANGED <<pc, file_errors>>
             ELSE /\ file_errors' = error(<<"Could not validate file. ",
                                           "load_sitk_image">>)
                  /\ IF mhd.simple_itk_image = 0
                     THEN /\ pc' = "crashed"
                          /\ UNCHANGED <<pending, yielded, consumed_files>>
                     ELSE /\ yielded' = Append(yielded,
                                               image(mhd.simple_itk_image))
                          /\ consumed_files' = consumed_files \cup consumed
                          /\ pending' = pending \ {f}
                          /\ UNCHANGED pc
                  /\ UNCHANGED mhd
    /\ UNCHANGED <<builder, input, studies, keys, names, idx, result,
                   build_errors, e2e, cf, fds, conv>>
    /\ UNCHANGED readVars

\* Up to MaxFiles files of any kind; the data file of an mhd header is
\* another file of the set or a file outside it.
InitMhd ==
    \E n \in 1..MaxFiles :
        \E header \in [1..n -> {"invalid", "unsafe", "other", "mha", "mhd"}],
           load \in [1..n -> {"ok", "ValidationError", "RuntimeError"}],
           dep \in [1..n -> 1..(n + 1)] :
            /\ \A k \in 1..n : dep[k] # k
            /\ InitBuild("mhd",
                  [k \in 1..n |->
                      Mhd(header[k], load[k],
                          IF header[k] = "mhd" THEN dep[k] ELSE 0)])
            /\ e2e = NoE2E
            /\ cf = NoFloat
            /\ fds = NoFDS
            /\ conv = NoConv
            /\ mhd = NoMhd

NextMhd ==
    \/ MhdFile
    \/ NextBuild

SpecMhd == InitMhd /\ [][NextMhd]_vars

-----------------------------------------------------------------------------
(* convert and _convert_directory *)

\* What _build_files returns for image_builder_mhd or image_builder_nrrd on
\* files whose images load: the mhd builder consumes an mha file, and an mhd
\* file together with its data file when that lies in the directory of the
\* header or below it (the data file is not looked up in files); the nrrd
\* builder consumes a single-file nrrd; every other file gets the error of
\* the builder.
BuildFiles(b, files) ==
    LET consumes(f) ==
            IF b = "mhd"
            THEN \/ input[f].header = "mha"
                 \/ /\ input[f].header = "mhd"
                    /\ input[input[f].dep].dir >= input[f].dir
            ELSE input[f].header = "nrrd"
        taken == {f \in files : consumes(f)}
    IN [consumed_files |->
            taken \cup {input[f].dep : f \in {g \in taken : input[g].dep # 0}},
        file_errors |->
            [f \in files \ taken |->
                <<IF b = "nrrd"
                  THEN <<"NRRD image builder", <<"Not a valid NRRD image file">>>>
                  ELSE IF input[f].header = "mhd"
                  THEN mhd_format_error(<<"detect_mhd_file">>)
                  ELSE mhd_format_error(<<"Not an ITK file">>)>>]]

\* _convert_directory, "for o in Path(input_directory).iterdir()": the
\* subdirectory is converted first, by a call of its own.
EnterSubdirectory ==
    /\ conv.at = "running"
    /\ conv.stack # <<>>
    /\ LET top == conv.stack[Len(conv.stack)]
       IN /\ top.at = "iterdir"
          /\ \E f \in DOMAIN input : input[f].dir = top.dir + 1
          /\ conv' = [conv EXCEPT
                !.stack = Append([@ EXCEPT ![Len(@)].at = "files"],
                                 [dir |-> top.dir + 1, at |-> "iterdir",
                                  b |-> 1])]
    /\ UNCHANGED <<input, e2e, cf, fds, mhd>>
    /\ UNCHANGED batchVars
    /\ UNCHANGED readVars

\* _convert_directory: the files of the directory are collected (the
\* subdirectory, if any, has been converted).
CollectFiles ==
    /\ conv.at = "running"
    /\ conv.stack # <<>>
    /\ LET top == conv.stack[Len(conv.stack)]
       IN /\ \/ top.at = "files"
             \/ /\ top.at = "iterdir"
                /\ \A f \in DOMAIN input : input[f].dir # top.dir + 1
          /\ conv' = [conv EXCEPT !.stack[Len(conv.stack)].at = "builders"]
    /\ UNCHANGED <<input, e2e, cf, fds, mhd>>
    /\ UNCHANGED batchVars
    /\ UNCHANGED readVars

\* _convert_directory: one iteration of "for builder in builders".
RunBuilder ==
    /\ conv.at = "running"
    /\ conv.stack # <<>>
    /\ LET top == conv.stack[Len(conv.stack)]
           files == {f \in DOMAIN input : input[f].dir = top.dir}
           builder_result == BuildFiles(conv.builders[top.b],
                                        files \ conv.consumed_files)
       IN /\ top.at = "builders"
          /\ top.b <= Len(conv.builders)
          /\ conv' = [conv EXCEPT
                !.stack[Len(conv.stack)].b = @ + 1,
                !.consumed_files = @ \cup builder_result.consumed_files,
                !.file_errors =
                    [f \in DOMAIN @ \cup DOMAIN builder_result.file_errors |->
                        (IF f \in DOMAIN @ THEN @[f] ELSE <<>>)
                        \o (IF f \in DOMAIN builder_result.file_errors
                            THEN builder_result.file_errors[f] ELSE <<>>)],
                !.calls = Append(@,
                    [dir |-> top.dir, b |-> top.b,
                     files |-> files \ conv.consumed_files,
                     before |-> conv.consumed_files,
                     consumed_files |-> builder_result.consumed_files])]
    /\ UNCHANGED <<input, e2e, cf, fds, mhd>>
    /\ UNCHANGED batchVars
    /\ UNCHANGED readVars

\* _convert_directory returns; when it is the outermost call, convert
\* returns PanImgResult(consumed_files=consumed_files, file_errors=file_errors).
DirectoryDone ==
    /\ conv.at = "running"
    /\ conv.stack # <<>>
    /\ LET top == conv.stack[Len(conv.stack)]
       IN /\ top.at = "builders"
          /\ top.b > Len(conv.builders)
          /\ conv' = [conv EXCEPT
                !.stack = SubSeq(@, 1, Len(@) - 1),
                !.at = IF Len(conv.stack) = 1 THEN "returned" ELSE @]
    /\ UNCHANGED <<input, e2e, cf, fds, mhd>>
    /\ UNCHANGED batchVars
    /\ UNCHANGED readVars

\* A directory of up to MaxFiles files, each in the directory itself (dir 0)
\* or in its subdirectory (dir 1), and a chain of one or two builders.
InitConvert ==
    \E n \in 1..MaxFiles :
        \E header \in [1..n -> {"mha", "mhd", "nrrd", "other"}],
           dir \in [1..n -> {0, 1}],
           dep \in [1..n -> 1..n],
           builders \in {<<"mhd">>, <<"nrrd">>, <<"mhd", "nrrd">>,
                         <<"nrrd", "mhd">>} :
            /\ \A k \in 1..n : header[k] = "mhd" => dep[k] # k
            /\ \A k \in 1..n : header[k] # "mhd" => dep[k] = 1
            /\ InitBuild("convert",
                  [k \in 1..n |->
                      [dir |-> dir[k]] @@
                      Mhd(header[k], "ok",
                          IF header[k] = "mhd" THEN dep[k] ELSE 0)])
            /\ e2e = NoE2E
            /\ cf = NoFloat
            /\ fds = NoFDS
            /\ mhd = NoMhd
            /\ conv = [NoConv EXCEPT
                         !.at = "running",
                         !.builders = builders,
                         !.stack = <<[dir |-> 0, at |-> "iterdir", b |-> 1]>>]

NextConvert ==
    \/ EnterSubdirectory
    \/ CollectFiles
    \/ RunBuilder
    \/ DirectoryDone

SpecConvert == InitConvert /\ [][NextConvert]_vars

-----------------------------------------------------------------------------
(* The custom float *)

\* num * 2^exp with num odd (or zero).
RECURSIVE Lowest(_)
Lowest(a) ==
    IF a.num = 0 THEN [num |-> 0, exp |-> 0]
    ELSE IF a.num % 2 = 1 THEN a
         ELSE Lowest([num |-> a.num \div 2, exp |-> a.exp + 1])

\* x = y for x = a.num * 2^a.exp and y = b.num * 2^b.exp
DyadicEq(a, b) == Lowest(a) = Lowest(b)

\* The n low bits of x in reversed order.
RECURSIVE ReversedBits(_, _)
ReversedBits(x, n) ==
    IF n = 0 THEN 0 ELSE (x % 2) * 2^(n - 1) + ReversedBits(x \div 2, n - 1)

WordOf(bytes) == bytes[1] + 256 * bytes[2]

ExponentOf(bytes) == WordOf(bytes) \div 1024

MantissaOf(bytes) == ReversedBits(WordOf(bytes) % 1024, 10)

ExponentField == ExponentOf(cf.bytes)

MantissaField == MantissaOf(cf.bytes)

\* C12: for every two bytes, read_custom_float returns
\* (1 + M/1024) * 2^(E - 63), that is (1024 + M) * 2^(E - 73), with E the six
\* high bits of w = b0 + 256 * b1 and M its ten low bits in reversed order.
C12_CustomFloatValue ==
    cf.at = "returned" =>
        DyadicEq(cf.value, [num |-> 1024 + MantissaField,
                            exp |-> ExponentField - 73])

\* bytes 01 fc: E = 63, low bits 0000000001, M = 512, value 1.5
C12_Witness ==
    /\ cf.at = "returned"
    /\ cf.bytes = <<1, 252>>
    /\ ExponentField = 63
    /\ MantissaField = 512
    /\ DyadicEq(cf.value, [num |-> 3, exp |-> -1])


\* C13 as stated: the pattern with exponent field 63 and mantissa field 0
\* decodes to 1.0, and there is a pattern of two bytes with exponent field 64
\* and mantissa field 512, which decodes to 3.0.
C13_PinnedPatterns ==
    cf.at = "returned" =>
        /\ (ExponentField = 63 /\ MantissaField = 0) =>
              DyadicEq(cf.value, [num |-> 1, exp |-> 0])
        /\ \E b0 \in Byte, b1 \in Byte :
              /\ ExponentOf(<<b0, b1>>) = 64
              /\ MantissaOf(<<b0, b1>>) = 512
              /\ DyadicEq(read_custom_float(<<b0, b1>>), [num |-> 3, exp |-> 0])

\* C13, amended: the pattern with exponent field 63 and mantissa field 0
\* decodes to 1.0 and the one with exponent field 63 and mantissa field 512
\* to 1.5; the exponent field of two bytes is at most 63, every decoded value
\* is below 2, and none is 3.0.
C13_PinnedPatternsBelowTwo ==
    cf.at = "returned" =>
        /\ (ExponentField = 63 /\ MantissaField = 0) =>
              DyadicEq(cf.value, [num |-> 1, exp |-> 0])
        /\ (ExponentField = 63 /\ MantissaField = 512) =>
              DyadicEq(cf.value, [num |-> 3, exp |-> -1])
        /\ ExponentField <= 63
        /\ cf.value.exp <= -10 /\ cf.value.num < 2048
        /\ ~DyadicEq(cf.value, [num |-> 3, exp |-> 0])

\* bytes 00 fc: E = 63, M = 0, value 1.0
C13_Witness ==
    /\ cf.at = "returned"
    /\ cf.bytes = <<0, 252>>
    /\ ExponentField = 63
    /\ MantissaField = 0
    /\ DyadicEq(cf.value, [num |-> 1, exp |-> 0])


-----------------------------------------------------------------------------
(* Laterality of an E2E file *)

RECURSIVE LastLaterality(_)
LastLaterality(chunks) ==
    IF chunks = <<>> THEN "none"
    ELSE LET c == chunks[Len(chunks)]
         IN IF c.type = 11
            THEN (IF c.parses /\ c.byte = 82 THEN "R"
                  ELSE IF c.parses /\ c.byte = 76 THEN "L" ELSE "other")
            ELSE LastLaterality(SubSeq(chunks, 1, Len(chunks) - 1))

\* C14: the images of an E2E file have eye choice OD when its (last)
\* laterality chunk holds byte 82, OS for byte 76, and U for any other byte,
\* for a record that does not decode and when there is no laterality chunk;
\* no exception leaves the builder on account of the laterality.
C14_LateralityNeverAborts ==
    /\ (e2e.exc = "AttributeError") => pc # "crashed"
    /\ (e2e.at = "done" /\ e2e.exc = "none") =>
          \A k \in 1..Len(yielded) :
              yielded[k].eye_choice =
                  (CASE LastLaterality(e2e.chunks) = "R" -> "OD"
                     [] LastLaterality(e2e.chunks) = "L" -> "OS"
                     [] OTHER -> "U")


-----------------------------------------------------------------------------
(* Files image_builder_oct cannot read *)

\* _get_image fails on the file: its signature is not recognised, or the
\* read of its container raises (cut data, a missing chunk, an offset
\* outside the file).
StructuralFailure(f) ==
    input[f].fmt \notin OctFormats \/ input[f].get \in {"caught", "uncaught"}

\* C15: image_builder_oct gives every file with a structural read failure or
\* an unrecognised signature exactly one error, 'OCT image builder: Not a
\* valid OCT file (supported formats: .fds,.fda,.e2e)', and does not consume
\* it; the other files are still processed and only UnconsumedFilesException
\* leaves the builder.
C15_OctFailureIsOneError ==
    builder = "oct" =>
        /\ pc # "crashed"
        /\ Returned =>
              \A f \in DOMAIN input :
                  StructuralFailure(f) =>
                      /\ f \in DOMAIN build_errors
                      /\ build_errors[f] = <<oct_format_error(
                            "Not a valid OCT file (supported formats: .fds,.fda,.e2e)")>>
                      /\ f \notin consumed_files


-----------------------------------------------------------------------------
(* Temporal metadata *)

\* The time step of the file at place k of the sorted headers: the files of a
\* group of n_time time steps come in n_time runs of equal length.
TimeStepOf(k) == (k - 1) \div (Len(ds.headers) \div ds.n_time)

Place(f) == CHOOSE k \in 1..Len(ds.headers) : ds.headers[k] = f

\* C16: every emitted 4D image has ContentTimes and Exposures of exactly
\* n_time entries, one from each time step, for single-frame and multi-frame
\* groups.
C16_TemporalEntriesPerTimeStep ==
    \A y \in 1..Len(yielded) :
        yielded[y].image.dimensions = 4 =>
            LET img == yielded[y].image.meta
            IN /\ Len(img.ContentTimes) = ds.n_time
               /\ Len(img.Exposures) = ds.n_time
               /\ {TimeStepOf(Place(img.ContentTimes[k])) :
                      k \in 1..Len(img.ContentTimes)} = 0..(ds.n_time - 1)
               /\ {TimeStepOf(Place(img.Exposures[k])) :
                      k \in 1..Len(img.Exposures)} = 0..(ds.n_time - 1)

\* A 4D image of single-frame files with several slices per time step.
C16_Witness ==
    /\ Len(yielded) = 1
    /\ yielded[1].image.dimensions = 4
    /\ ds.n_slices_per_file = 1
    /\ ds.n_slices > 1
    /\ Len(yielded[1].image.meta.ContentTimes) = ds.n_time


-----------------------------------------------------------------------------
(* The end of a builder run *)

\* The run of the builder has ended, with UnconsumedFilesException, with the
\* end of the generator, or with another exception.
RunEnded == pc \in {"returned", "crashed"}

\* C17: a builder run raises UnconsumedFilesException with the complete error
\* map exactly when a file has a recorded error, and only after every valid
\* group was attempted; _build_files returns the images yielded before it
\* with that error map.
C17_UnconsumedIffErrors ==
    RunEnded =>
        /\ DOMAIN file_errors # {} => (Returned /\ build_errors = file_errors)
        /\ Returned =>
              /\ build_errors = file_errors
              /\ pending = {}
              /\ builder = "dicom" => idx = Len(result) + 1
              /\ \A f \in consumed_files :
                    \E y \in 1..Len(yielded) : f \in yielded[y].consumed_files


-----------------------------------------------------------------------------
(* The shape of the assembled buffer *)

\* C18: the buffer of every emitted group has shape (n_time if 4D, n_slices,
\* rows, cols, samples_per_pixel if > 1), also for colour series of several
\* single-frame files, and the image is a vector image exactly when
\* samples_per_pixel > 1.
C18_BufferShape ==
    \A y \in 1..Len(yielded) :
        LET image == yielded[y].image
        IN /\ image.array.lead = shape(ds)
           /\ Len(image.array.planes) = Product(shape(ds))
           /\ image.array.samples = samples_per_pixel(ds)
           /\ image.isVector = (samples_per_pixel(ds) > 1)


-----------------------------------------------------------------------------
(* The general assembly path *)

\* No file of the group is taken as the whole volume: the buffer is filled
\* file by file.
GeneralPath ==
    \A k \in 1..Len(ds.headers) :
        ~IsWholeVolume(ds, read_pixel_values(ds.headers[k], FALSE, "int16"))

\* The place (row-major, from 1) of the file at index (from 0) of a group of
\* single-frame files: its time step, and its index within the group, natural
\* or counted from the end.
NaturalPlace(index) ==
    LET z_index == IF geom.z_order >= 0 THEN index
                   ELSE Len(ds.headers) - 1 - index
    IN IF dimensions(ds) = 4
       THEN (index \div ds.n_slices) * ds.n_slices + (z_index % ds.n_slices) + 1
       ELSE z_index + 1

\* C19: in the general path every (time, slice) position of the buffer is
\* written by exactly one file or frame: no position keeps its initial zero,
\* no two positions hold the same file and frame, and a single-frame file
\* lies at its natural index, or at total - 1 - index for a negative slice
\* order.
C19_EveryPositionWrittenOnce ==
    (Assembled /\ GeneralPath) =>
        /\ Written(dcm_array) = 1..Len(dcm_array.planes)
        /\ \A i, j \in 1..Len(dcm_array.planes) :
              i # j =>
                 <<dcm_array.planes[i].file, dcm_array.planes[i].frame>> #
                 <<dcm_array.planes[j].file, dcm_array.planes[j].frame>>
        /\ ds.n_slices_per_file = 1 =>
              \A k \in 1..Len(ds.headers) :
                  dcm_array.planes[NaturalPlace(k - 1)].file = ds.headers[k]


-----------------------------------------------------------------------------
(* Repeated origins *)

\* The places of the origins that differ from the origin just before them.
StepPlaces(origins) ==
    {i \in 1..Len(origins) : i = 1 \/ origins[i] # origins[i - 1]}

\* The places of the origins that differ from every origin before them.
FirstPlaces(origins) ==
    {i \in 1..Len(origins) : \A j \in 1..(i - 1) : origins[j] # origins[i]}

\* The number of differences between successive origins at the places kept,
\* and their sum (the last origin kept minus the first).
DiffsOver(origins, kept) ==
    IF kept = {} THEN [n_diffs |-> 0, origin_diff |-> <<0, 0, 0>>]
    ELSE [n_diffs |-> Cardinality(kept) - 1,
          origin_diff |-> VecSub(origins[Max(kept)], origins[Min(kept)])]

\* An origin repeats an earlier one with a different origin in between.
NonAdjacentRepeat(origins) ==
    \E i, j \in 1..Len(origins) :
        i + 1 < j /\ origins[i] = origins[j] /\ origins[j - 1] # origins[j]

\* C20 as stated: only consecutive equal origins are collapsed; an origin
\* equal to a non-adjacent earlier one is kept and contributes a difference.
C20_ConsecutiveOriginsCollapsed ==
    SliceOrderKnown =>
        LET d == DiffsOver(iter_origins(ds), StepPlaces(iter_origins(ds)))
        IN geom.n_diffs = d.n_diffs /\ geom.origin_diff = d.origin_diff

\* C20, amended: an origin equal to any earlier origin, adjacent or not, is
\* skipped; it is not counted and contributes no difference.
C20_RepeatedOriginsSkipped ==
    SliceOrderKnown =>
        LET d == DiffsOver(iter_origins(ds), FirstPlaces(iter_origins(ds)))
        IN geom.n_diffs = d.n_diffs /\ geom.origin_diff = d.origin_diff

\* Origins z = 0, 1, 0: one difference is counted.
C20_Witness ==
    /\ SliceOrderKnown
    /\ NonAdjacentRepeat(iter_origins(ds))
    /\ Len(iter_origins(ds)) = 3
    /\ geom.n_diffs = 1


-----------------------------------------------------------------------------
(* In-plane spacing *)

\* The group is one multi-frame file with per-frame functional groups.
EnhancedPath ==
    /\ Len(ds.headers) = 1
    /\ ds.n_slices_per_file > 1
    /\ ref_header(ds).fpos # <<>>

\* C21: an enhanced group without any PixelSpacing fails with an error for
\* its files; it does not get the default in-plane spacing (1.0, 1.0).
C21_MissingSpacingIsFatal ==
    (ReadEnded /\ EnhancedPath /\ ref_header(ds).spacing = <<>>) =>
        /\ GroupHasError
        /\ ~GroupEmitted


-----------------------------------------------------------------------------
(* Origin of the output *)

\* The positions of the group in iteration order that were not seen before.
DistinctPositions ==
    LET origins == iter_origins(ds)
    IN SelectSeq([i \in 1..Len(origins) |-> [at |-> i, o |-> origins[i]]],
                 LAMBDA e : \A j \in 1..(e.at - 1) : origins[j] # e.o)

\* The first three components of the origin of the emitted image.
EmittedOrigin ==
    LET image == (CHOOSE y \in Range(yielded) : y.name = ds.name).image
    IN SubSeq(image.origin, 1, 3)

\* C22: the origin of the output is the first distinct slice position when
\* the slice order sign is >= 0 and the last distinct one when it is
\* negative; a group without any position gets origin (0, 0, 0) and sign 0.
C22_OriginByOrder ==
    (ReadEnded /\ GroupEmitted) =>
        LET distinct == DistinctPositions
        IN IF distinct = <<>>
           THEN EmittedOrigin = <<0, 0, 0>> /\ geom.z_order = 0
           ELSE IF geom.z_order >= 0
                THEN EmittedOrigin = distinct[1].o
                ELSE EmittedOrigin = distinct[Len(distinct)].o

C22_Witness ==
    /\ ReadEnded
    /\ GroupEmitted
    /\ geom.z_order < 0
    /\ Len(DistinctPositions) > 1
    /\ EmittedOrigin = DistinctPositions[Len(DistinctPositions)].o
    /\ EmittedOrigin # DistinctPositions[1].o


-----------------------------------------------------------------------------
(* Dimension of the dataset *)

\* _determine_slice_order has run for the dataset.
GeometryKnown == geom # NoGeometry

\* The orientation of the same headers read as a 3D dataset.
Orientation3D == direction_matrix([ds EXCEPT !.n_time = 0])

\* C23: the dataset is 4D exactly when n_time is present and > 1 and 3D
\* otherwise; for 4D the spacing is padded with 1.0, the origin with 0.0 and
\* the direction is the 3x3 orientation inside a 4x4 identity; origin,
\* spacing and direction always have the dimension of the dataset.
C23_DimensionOfGeometry ==
    GeometryKnown =>
        LET n == dimensions(ds)
            d == direction_matrix(ds)
        IN /\ n = (IF ds.n_time # 0 /\ ds.n_time > 1 THEN 4 ELSE 3)
           /\ Len(geom.origin) = n
           /\ Len(geom.spacing) = n
           /\ Len(d) = n
           /\ \A i \in 1..n : Len(d[i]) = n
           /\ [i \in 1..3 |-> SubSeq(d[i], 1, 3)] = Orientation3D
           /\ n = 4 =>
                /\ geom.spacing[4] = 1
                /\ geom.origin[4] = 0
                /\ \A i \in 1..3 : d[i][4] = 0
                /\ d[4] = <<0, 0, 0, 1>>

C23_Witness ==
    /\ ReadEnded
    /\ GroupEmitted
    /\ GeometryKnown
    /\ dimensions(ds) = 4
    /\ Len(geom.origin) = 4
    /\ direction_matrix(ds)[4] = <<0, 0, 0, 1>>


-----------------------------------------------------------------------------
(* Temporal metadata and time index *)

\* The files whose pixel data lies at time index t of a 4D buffer.
FilesAtTime(array, t) ==
    {array.planes[i].file :
        i \in {j \in 1..Len(array.planes) : (j - 1) \div ds.n_slices = t}}

\* C28: in every emitted 4D image the k-th entry of ContentTimes and of
\* Exposures comes from a file whose pixel data is stored at time index k,
\* for natural and for reversed slice order.
C28_TemporalEntryAtItsTimeIndex ==
    \A y \in 1..Len(yielded) :
        yielded[y].image.dimensions = 4 =>
            LET img == yielded[y].image
            IN /\ \A k \in 1..Len(img.meta.ContentTimes) :
                     img.meta.ContentTimes[k] \in FilesAtTime(img.array, k - 1)
               /\ \A k \in 1..Len(img.meta.Exposures) :
                     img.meta.Exposures[k] \in FilesAtTime(img.array, k - 1)


-----------------------------------------------------------------------------
(* Slots of an OCT volume *)

\* The places of the OCT image chunks (type 1073741824, ind 1) of volume v.
OctChunksOf(v) ==
    {k \in 1..Len(e2e.chunks) :
        /\ e2e.chunks[k].type = 1073741824
        /\ e2e.chunks[k].ind = 1
        /\ e2e.chunks[k].volume = v}

\* read_oct_volume has ended, by returning or by raising.
ReadOctVolumeEnded == e2e.at \in {"fundus", "raised"}

\* C29: read_oct_volume gives each volume as many slots as there are OCT
\* image chunks of that volume and fills each slot from exactly one of these
\* chunks, whatever their slice_id: no slot keeps 0 and no slice replaces
\* another.
C29_EverySlotFilledOnce ==
    e2e.at = "fundus" =>
        \A k \in 1..Len(e2e.oct_volumes) :
            LET v == e2e.oct_volumes[k].patient_id
                slots == e2e.oct_volumes[k].volume
            IN /\ Len(slots) = Cardinality(OctChunksOf(v))
               /\ Range(slots) = OctChunksOf(v)


-----------------------------------------------------------------------------
(* The chunk index of an fds file *)

\* The layout the fds file was written with.
Layout == input[1].layout

\* The terminating 0 is in the file.
Terminated == Layout.terminated /\ Layout.cut <= Len(Layout.trailing)

\* The number of bytes chunk k takes in the file.
ChunkBytes(k) == 1 + Len(Layout.chunks[k].name) + 4 + Layout.chunks[k].size

RECURSIVE ChunkStart(_)
\* The file position of the name-length byte of chunk k (of the terminator
\* for k one more than the number of chunks).
ChunkStart(k) == IF k = 1 THEN 15 ELSE ChunkStart(k - 1) + ChunkBytes(k - 1)

\* The file position right after the length field of chunk k.
BodyStart(k) == ChunkStart(k) + 1 + Len(Layout.chunks[k].name) + 4

\* What the index holds after the first m chunks: an entry for each name,
\* of the last chunk with that name.
IndexOf(m) ==
    {[name |-> Layout.chunks[k].name, location |-> BodyStart(k),
      size |-> Layout.chunks[k].size] :
        k \in {j \in 1..m : \A l \in (j + 1)..m :
                               Layout.chunks[l].name # Layout.chunks[j].name}}

\* C24: get_list_of_file_chunks skips the 15-byte header, records for each
\* chunk its length and the file position right after its 4-byte length
\* field, expects the next name-length byte at that position plus the
\* length, and stops at the first name-length byte 0 without indexing
\* anything after it.
C24_ChunkIndex ==
    Terminated =>
        LET n == Len(Layout.chunks)
        IN /\ fds.at # "raised"
           /\ fds.at = "loop" =>
                \E m \in 0..n :
                    /\ fds.pos = ChunkStart(m + 1)
                    /\ fds.chunk_dict = IndexOf(m)
           /\ fds.at = "returned" =>
                /\ fds.pos = ChunkStart(n + 1) + 1
                /\ fds.chunk_dict = IndexOf(n)
           /\ \A e \in fds.chunk_dict :
                 \E k \in 1..n : /\ e.location = BodyStart(k)
                                 /\ e.location + e.size = ChunkStart(k + 1)

C24_Witness ==
    /\ Terminated
    /\ fds.at = "returned"
    /\ Layout.trailing # <<>>
    /\ Cardinality(fds.chunk_dict) = 2
    /\ \E e \in fds.chunk_dict : e.size > 0

\* The reader has left get_list_of_file_chunks, or the builder has handled
\* what it raised or returned.
ListEnded == fds.at \in {"returned", "raised", "done"}

\* C30: get_list_of_file_chunks terminates on every finite file: each
\* iteration of its loop consumes at least one byte, and a file that ends
\* without a 0 name-length byte gives an error for that file in
\* image_builder_oct.
C30_ChunkListTerminates ==
    /\ <>ListEnded
    /\ [][(fds.at = "loop" /\ fds'.at # "raised") => fds'.pos > fds.pos]_vars
    /\ [](~Terminated => (ListEnded ~> (pc = "returned"
                                         /\ 1 \in DOMAIN build_errors)))
    /\ [](~Terminated => fds.at # "returned")

C30_Witness ==
    /\ ~Terminated
    /\ Len(fds.bytes) >= 15
    /\ fds.chunk_dict # {}
    /\ pc = "returned"
    /\ 1 \in DOMAIN build_errors


-----------------------------------------------------------------------------
(* A file load_sitk_image rejects *)

\* load_sitk_image is called for the file and raises ValidationError.
RejectedByLoad(f) ==
    input[f].header \in {"mha", "mhd"} /\ input[f].load = "ValidationError"

\* C25: when load_sitk_image rejects a file with a validation error,
\* image_builder_mhd yields no image for it, does not consume it, and the
\* only error recorded for it is 'Mhd image builder: ' followed by the
\* message of the validation error.
C25_RejectedFileIsOneError ==
    builder = "mhd" =>
        /\ pc # "crashed"
        /\ \A f \in DOMAIN input :
              (RejectedByLoad(f) /\ f \notin pending) =>
                  /\ \A k \in 1..Len(yielded) : yielded[k].name # <<f, 0>>
                  /\ f \notin consumed_files
                  /\ f \in DOMAIN file_errors
                  /\ file_errors[f] = <<mhd_format_error(<<"load_sitk_image">>)>>


-----------------------------------------------------------------------------
(* The chain of builders *)

\* C26: in _convert_directory the builders run in the order of the list,
\* each on the files that no earlier builder (and no conversion of a
\* subdirectory) has consumed; no file is consumed by two builders, and the
\* shared consumed_files only grows.
C26_BuildersInOrder ==
    LET calls == conv.calls
    IN /\ \A i \in 1..Len(calls) :
             /\ calls[i].files \cap calls[i].before = {}
             /\ \A j \in 1..(i - 1) :
                   /\ calls[j].before \subseteq calls[i].before
                   /\ calls[j].consumed_files \subseteq calls[i].before
                   /\ calls[j].dir = calls[i].dir => calls[j].b < calls[i].b
                   /\ calls[j].consumed_files \cap calls[i].consumed_files = {}
       /\ \A i \in 1..Len(calls) :
             calls[i].before \cup calls[i].consumed_files
                \subseteq conv.consumed_files

\* C27: when convert has run the chain of builders, no file of
\* result.consumed_files is a key of result.file_errors.
C27_ConsumedHaveNoErrors ==
    conv.at = "returned" =>
        conv.consumed_files \cap DOMAIN conv.file_errors = {}

=============================================================================
